---- MODULE Spec2Model ----
(***************************************************************************)
(* State-machine model of the local Catan rules engine:                    *)
(*   GameEngine, InitialPlacementManager (src/local-catan/src/main.ts)     *)
(*   GameRenderer board positioning      (src/unnamed/part_000)            *)
(*                                                                         *)
(* Geometry.  The source positions hexes and vertices with floating point  *)
(* pixel coordinates (hexSize = 60, hexWidth = 60*sqrt(3)).  The model     *)
(* keeps the same points on the integer lattice whose x unit is            *)
(* hexWidth/2 and whose y unit is hexSize/2 = 30 pixels, so a squared      *)
(* pixel distance is 2700*dx^2 + 900*dy^2 and the source's distance        *)
(* thresholds (5 pixels, 0.8*hexSize, 1.2*hexSize) are compared exactly.   *)
(***************************************************************************)
EXTENDS Integers, Sequences, FiniteSets, TLC

VARIABLES
    pc,                     \* LocalCatanGame: "constructed" | "running"
    players,                \* GameState.players
    currentPlayerIndex,     \* GameState.currentPlayerIndex
    phase,                  \* GameState.phase
    hexes,                  \* GameState.hexes
    vertices,               \* GameState.vertices
    edges,                  \* GameState.edges
    diceRolled,             \* GameState.diceRolled
    lastDiceRoll,           \* GameState.lastDiceRoll
    lastDie1,               \* GameState.lastDie1
    lastDie2,               \* GameState.lastDie2
    rollHistory,            \* GameState.rollHistory (Map sum -> count)
    bank,                   \* GameState.bank
    longestRoadPlayer,      \* GameState.longestRoadPlayer
    longestRoadLength,      \* GameState.longestRoadLength
    turnNumber,             \* GameState.turnNumber
    initialPlacementPhase,  \* GameState.initialPlacementPhase
    initialPlacementRound,  \* GameState.initialPlacementRound
    placementsPerPlayer,    \* InitialPlacementManager.placementsPerPlayer
    result,                 \* what the last command returned or raised
    rolls                   \* history: number of rollDice calls that returned

boardVars == <<hexes, vertices, edges>>
diceVars  == <<diceRolled, lastDiceRoll, lastDie1, lastDie2, rollHistory>>
roadVars  == <<longestRoadPlayer, longestRoadLength>>
setupVars == <<initialPlacementPhase, initialPlacementRound, placementsPerPlayer>>
turnVars  == <<currentPlayerIndex, phase, turnNumber>>

\* every field of GameState plus the setup counters (all but pc, result, rolls)
gameVars == <<players, bank, boardVars, diceVars, roadVars, setupVars, turnVars>>
vars == <<pc, gameVars, result, rolls>>

-----------------------------------------------------------------------------
(* Bounds of the model *)

MaxRolls == 2       \* rollDice calls that return
MaxTurns == 1       \* endTurn calls
TableRolls == 4     \* the same, in the turns played at the table
TableTurns == 3
SupplyRolls == 19   \* the same, in the run of sixes
SupplyTurns == 18
EndgameRolls == 20  \* the same, in the game played to its end
EndgameTurns == 20

-----------------------------------------------------------------------------
(* types.ts *)

null == "null"          \* null of a string-valued field
nullNum == -1           \* null of a number-valued field
undefined == -2         \* an omitted optional number argument

Brick == "brick"
Wood == "wood"
Sheep == "sheep"
Wheat == "wheat"
Ore == "ore"
Desert == "desert"

ResourceType == {Brick, Wood, Sheep, Wheat, Ore, Desert}
Productive == ResourceType \ {Desert}

PlayerColor == <<"red", "blue", "orange", "white">>

RESOURCE_DISTRIBUTION ==
    [r \in ResourceType |->
        CASE r = Brick -> 3 [] r = Wood -> 4 [] r = Sheep -> 4
          [] r = Wheat -> 4 [] r = Ore -> 3 [] r = Desert -> 1]

NUMBER_TOKENS == <<2, 3, 3, 4, 4, 5, 5, 6, 6, 8, 8, 9, 9, 10, 10, 11, 11, 12>>

InitialPlacement == "initialPlacement"
RollingDice == "rollingDice"
MainPhase == "mainPhase"
GameOver == "gameOver"

PlayerIds == 0 .. 3
HexIds == 0 .. 18
VertexIds == 0 .. 53
EdgeIds == 0 .. 71

-----------------------------------------------------------------------------
(* Helpers *)

RECURSIVE SumOver(_, _)
SumOver(S, f) ==
    IF S = {} THEN 0
    ELSE LET x == CHOOSE y \in S : TRUE IN f[x] + SumOver(S \ {x}, f)

MaxOf(S) == CHOOSE m \in S : \A n \in S : n <= m

\* a faulty variant: the stored count is never read
getOr0_zero(map, key) == 0

\* Map.get(key) || 0
getOr0(map, key) == IF key \in DOMAIN map THEN map[key] ELSE 0

\* Map.set(key, value)
mapSet(map, key, value) ==
    [k \in DOMAIN map \cup {key} |-> IF k = key THEN value ELSE map[k]]

\* squared pixel distance of two lattice points
distSq(x1, y1, x2, y2) ==
    2700 * (x1 - x2) * (x1 - x2) + 900 * (y1 - y2) * (y1 - y2)

\* the 6 corners of a hex: angle = (PI/3)*i - PI/2, radius hexSize
cornerDx == <<0, 1, 1, 0, -1, -1>>
cornerDy == <<-2, -1, 1, 2, 1, -1>>
hexCorners(hex) == {<<hex.x + cornerDx[i], hex.y + cornerDy[i]>> : i \in 1 .. 6}

-----------------------------------------------------------------------------
(* GameEngine.createBoard *)

\* layout: the 3-4-5-4-3 rows, as <<row, col>> in hex-id order
layout ==
    << <<0, 1>>, <<0, 2>>, <<0, 3>>,
       <<1, 0>>, <<1, 1>>, <<1, 2>>, <<1, 3>>,
       <<2, 0>>, <<2, 1>>, <<2, 2>>, <<2, 3>>, <<2, 4>>,
       <<3, 0>>, <<3, 1>>, <<3, 2>>, <<3, 3>>,
       <<4, 1>>, <<4, 2>>, <<4, 3>> >>

\* the resource tiles in the order createBoard lists them
resourceTiles ==
    <<Brick, Brick, Brick, Wood, Wood, Wood, Wood, Sheep, Sheep, Sheep, Sheep,
      Wheat, Wheat, Wheat, Wheat, Ore, Ore, Ore, Desert>>

\* shuffleArray: the outcomes the model draws from (each a permutation of
\* its input, given as the list of source positions)
ResourceShuffles ==
    { <<16, 12, 8, 19, 17, 1, 4, 9, 13, 5, 10, 2, 6, 14, 18, 11, 3, 7, 15>>,
      <<16, 12, 8, 1, 17, 19, 4, 9, 13, 5, 10, 2, 6, 14, 18, 11, 3, 7, 15>> }
NumberShuffles ==
    { <<8, 9, 1, 10, 11, 2, 4, 6, 3, 5, 7, 12, 13, 14, 15, 16, 17, 18>> }

shuffleArray(array, perm) == [i \in 1 .. Len(array) |-> array[perm[i]]]

\* numberIndex++ : the number of non-desert hexes before hex h
numberIndexAt(shuffledResources, h) ==
    Cardinality({k \in 1 .. h : shuffledResources[k] # Desert})

createBoardHexes(shuffledResources, shuffledNumbers) ==
    [h \in HexIds |->
        LET resource == shuffledResources[h + 1]
            row == layout[h + 1][1]
            col == layout[h + 1][2]
        IN  [x |-> 2 * col + (row % 2),
             y |-> 3 * row,
             resourceType |-> resource,
             numberToken |->
                IF resource = Desert THEN nullNum
                ELSE shuffledNumbers[numberIndexAt(shuffledResources, h) + 1],
             hasRobber |-> resource = Desert]]

createBoardVertices ==
    [v \in VertexIds |-> [x |-> 0, y |-> 0, building |-> null, playerColor |-> null]]

\* port is left absent by createBoard; absent and null read alike in drawBoard
createBoardEdges ==
    [e \in EdgeIds |-> [vertex1 |-> 0, vertex2 |-> 0, road |-> null, port |-> null]]

createPlayer(id) ==
    [id |-> id, color |-> PlayerColor[id + 1],
     resources |-> [r \in Productive |-> 0],
     victoryPoints |-> 0, settlements |-> 0, cities |-> 0, roads |-> 0,
     longestRoad |-> 0, knights |-> 0,
     hasLongestRoad |-> FALSE, hasLargestArmy |-> FALSE]

\* GameEngine.initializeGame and the InitialPlacementManager constructor
Init ==
    /\ pc = "constructed"
    /\ players = [p \in PlayerIds |-> createPlayer(p)]
    /\ currentPlayerIndex = 0
    /\ phase = InitialPlacement
    /\ \E rp \in ResourceShuffles, np \in NumberShuffles :
          hexes = createBoardHexes(shuffleArray(resourceTiles, rp),
                                   shuffleArray(NUMBER_TOKENS, np))
    /\ vertices = createBoardVertices
    /\ edges = createBoardEdges
    /\ diceRolled = FALSE
    /\ lastDiceRoll = nullNum
    /\ lastDie1 = nullNum
    /\ lastDie2 = nullNum
    /\ rollHistory = <<>>
    /\ bank = [r \in Productive |-> RESOURCE_DISTRIBUTION[r] * 19]
    /\ longestRoadPlayer = nullNum
    /\ longestRoadLength = 5
    /\ turnNumber = 0
    /\ initialPlacementPhase = TRUE
    /\ initialPlacementRound = 1
    /\ placementsPerPlayer = [p \in PlayerIds |-> [settlements |-> 0, roads |-> 0]]
    /\ result = "none"
    /\ rolls = 0

-----------------------------------------------------------------------------
(* GameRenderer.drawBoard: vertex positions and edge endpoints *)

\* hex.x and hex.y are written by createBoard only; the corner points of all
\* hexes, deduplicated (the vertexPositions map keyed by rounded coordinates)
vertexPositions ==
    UNION {hexCorners([x |-> 2 * layout[h + 1][2] + (layout[h + 1][1] % 2),
                       y |-> 3 * layout[h + 1][1]]) : h \in HexIds}

\* the sort comparator: by y, and by x when the y's are less than 1 pixel apart
sortsBefore(a, b) == a[2] < b[2] \/ (a[2] = b[2] /\ a[1] < b[1])

\* Array.sort with the comparator, smallest first
RECURSIVE sortPositions(_)
sortPositions(S) ==
    IF S = {} THEN <<>>
    ELSE LET first == CHOOSE a \in S : \A b \in S \ {a} : sortsBefore(a, b)
         IN  <<first>> \o sortPositions(S \ {first})

\* sortedVertices[index + 1]: the position that lands at state.vertices[index]
sortedVertices == sortPositions(vertexPositions)

calculateVertexPositions(vs) ==
    [v \in VertexIds |->
        IF v < Len(sortedVertices)
        THEN [vs[v] EXCEPT !.x = sortedVertices[v + 1][1], !.y = sortedVertices[v + 1][2]]
        ELSE vs[v]]

\* distance > hexSize * 0.8 && distance < hexSize * 1.2
isEdgeLength(d2) == d2 > 48 * 48 /\ d2 < 72 * 72

\* the pairs (i, j), i < j, that connectEdgesToVertices finds close enough,
\* on the positions calculateVertexPositions has just written
nearPairs ==
    {ij \in VertexIds \X VertexIds :
        /\ ij[1] < ij[2]
        /\ ij[2] < Len(sortedVertices)
        /\ isEdgeLength(distSq(sortedVertices[ij[1] + 1][1], sortedVertices[ij[1] + 1][2],
                               sortedVertices[ij[2] + 1][1], sortedVertices[ij[2] + 1][2]))}

\* the order in which the nested i, j loops meet the pairs
loopsBefore(a, b) == a[1] < b[1] \/ (a[1] = b[1] /\ a[2] < b[2])

RECURSIVE inLoopOrder(_)
inLoopOrder(S) ==
    IF S = {} THEN <<>>
    ELSE LET first == CHOOSE a \in S : \A b \in S \ {a} : loopsBefore(a, b)
         IN  <<first>> \o inLoopOrder(S \ {first})

\* connectedPairs[edgeIndex + 1]: the pair written to edges[edgeIndex]
connectedPairs == inLoopOrder(nearPairs)

\* edgeIndex < edges.length: pairs beyond the last edge are dropped
connectEdgesToVertices(es) ==
    [e \in EdgeIds |->
        IF e < Len(connectedPairs)
        THEN [es[e] EXCEPT !.vertex1 = connectedPairs[e + 1][1],
                           !.vertex2 = connectedPairs[e + 1][2]]
        ELSE es[e]]

-----------------------------------------------------------------------------
(* Geometric adjacency queries (GameEngine, InitialPlacementManager) *)

\* distance < 5
isClose(d2) == d2 < 5 * 5

\* GameEngine.getVerticesAdjacentToHex: per corner the closest vertex within
\* 5 pixels, the lowest index among equally close ones
getVerticesAdjacentToHex(hexId) ==
    LET hex == hexes[hexId]
        d2(v, c) == distSq(vertices[v].x, vertices[v].y, c[1], c[2])
        near(c) == {v \in VertexIds : isClose(d2(v, c))}
    IN  {CHOOSE v \in near(c) :
            \A w \in near(c) : d2(v, c) < d2(w, c) \/ (d2(v, c) = d2(w, c) /\ v <= w)
         : c \in {k \in hexCorners(hex) : near(k) # {}}}

\* InitialPlacementManager.getHexesAdjacentToVertex
getHexesAdjacentToVertex(vertexId) ==
    {h \in HexIds :
        \E c \in hexCorners(hexes[h]) :
            isClose(distSq(vertices[vertexId].x, vertices[vertexId].y, c[1], c[2]))}

\* getAdjacentVertices (both classes): the other endpoints of the vertex's edges
getAdjacentVertices(vertexId) ==
    {edges[e].vertex2 : e \in {k \in EdgeIds : edges[k].vertex1 = vertexId}}
    \cup {edges[e].vertex1 : e \in {k \in EdgeIds : edges[k].vertex1 # vertexId
                                                    /\ edges[k].vertex2 = vertexId}}

\* a faulty variant: the distance rule is never applied
checkDistanceRule_none(vertexId) == TRUE

\* checkDistanceRule (both classes): no adjacent vertex holds a building
checkDistanceRule(vertexId) ==
    \A adjId \in getAdjacentVertices(vertexId) : vertices[adjId].building = null

-----------------------------------------------------------------------------
(* InitialPlacementManager *)

canPlaceSettlement(vertexId, playerId) ==
    /\ currentPlayerIndex = playerId
    /\ IF initialPlacementRound = 1
       THEN ~(placementsPerPlayer[playerId].settlements >= 1)
       ELSE ~(placementsPerPlayer[playerId].settlements >= 2)
    /\ vertices[vertexId].building = null
    /\ checkDistanceRule(vertexId)

\* a faulty variant: the road need not touch a settlement of the player
canPlaceRoad_anywhere(edgeId, playerId, vertexId) ==
    /\ currentPlayerIndex = playerId
    /\ IF initialPlacementRound = 1
       THEN /\ ~(placementsPerPlayer[playerId].settlements < 1)
            /\ ~(placementsPerPlayer[playerId].roads >= 1)
       ELSE /\ ~(placementsPerPlayer[playerId].settlements < 2)
            /\ ~(placementsPerPlayer[playerId].roads >= 2)
    /\ edges[edgeId].road = null

\* vertexId is accepted and never read
canPlaceRoad(edgeId, playerId, vertexId) ==
    /\ currentPlayerIndex = playerId
    /\ IF initialPlacementRound = 1
       THEN /\ ~(placementsPerPlayer[playerId].settlements < 1)
            /\ ~(placementsPerPlayer[playerId].roads >= 1)
       ELSE /\ ~(placementsPerPlayer[playerId].settlements < 2)
            /\ ~(placementsPerPlayer[playerId].roads >= 2)
    /\ edges[edgeId].road = null
    /\ LET vertex1 == vertices[edges[edgeId].vertex1]
           vertex2 == vertices[edges[edgeId].vertex2]
           color == players[playerId].color
       IN  \/ (vertex1.building = "settlement" /\ vertex1.playerColor = color)
           \/ (vertex2.building = "settlement" /\ vertex2.playerColor = color)

\* the adjacentHexes.forEach loop of giveInitialResources
RECURSIVE giveFromHexes(_, _, _)
giveFromHexes(pl, hs, playerId) ==
    IF hs = {} THEN pl
    ELSE LET h == CHOOSE k \in hs : TRUE
             hex == hexes[h]
             given ==
                IF hex.resourceType # Desert /\ hex.numberToken # nullNum
                THEN [pl EXCEPT ![playerId].resources[hex.resourceType] = @ + 1]
                ELSE pl
         IN  giveFromHexes(given, hs \ {h}, playerId)

giveInitialResources(pl, vertexId, playerId) ==
    giveFromHexes(pl, getHexesAdjacentToVertex(vertexId), playerId)

\* a faulty variant: the grant is made in round 1 as well
placeInitialSettlement_alwaysGrant(vertexId, playerId) ==
    LET placed == [players EXCEPT ![playerId].settlements = @ + 1,
                                  ![playerId].victoryPoints = @ + 1]
    IN  /\ vertices' = [vertices EXCEPT ![vertexId].building = "settlement",
                                        ![vertexId].playerColor = players[playerId].color]
        /\ placementsPerPlayer' = [placementsPerPlayer EXCEPT ![playerId].settlements = @ + 1]
        /\ players' = giveInitialResources(placed, vertexId, playerId)

\* the writes of placeInitialSettlement once canPlaceSettlement has passed
placeInitialSettlement(vertexId, playerId) ==
    LET placed == [players EXCEPT ![playerId].settlements = @ + 1,
                                  ![playerId].victoryPoints = @ + 1]
    IN  /\ vertices' = [vertices EXCEPT ![vertexId].building = "settlement",
                                        ![vertexId].playerColor = players[playerId].color]
        /\ placementsPerPlayer' = [placementsPerPlayer EXCEPT ![playerId].settlements = @ + 1]
        /\ players' = IF initialPlacementRound = 2
                      THEN giveInitialResources(placed, vertexId, playerId)
                      ELSE placed

\* a faulty variant: round 2 walks the seats forward as round 1 does
advanceToNextPlayer_forward ==
    IF initialPlacementRound = 1
    THEN IF currentPlayerIndex = 3
         THEN <<2, currentPlayerIndex, initialPlacementPhase, phase>>
         ELSE <<initialPlacementRound, (currentPlayerIndex + 1) % 4,
                initialPlacementPhase, phase>>
    ELSE IF currentPlayerIndex = 0
         THEN <<initialPlacementRound, 0, FALSE, RollingDice>>
         ELSE <<initialPlacementRound, (currentPlayerIndex + 1) % 4,
                initialPlacementPhase, phase>>

\* a faulty variant: round 2 ends the setup phase after seat 1 instead of seat 0
advanceToNextPlayer_earlyEnd ==
    IF initialPlacementRound = 1
    THEN IF currentPlayerIndex = 3
         THEN <<2, currentPlayerIndex, initialPlacementPhase, phase>>
         ELSE <<initialPlacementRound, (currentPlayerIndex + 1) % 4,
                initialPlacementPhase, phase>>
    ELSE IF currentPlayerIndex = 1
         THEN <<initialPlacementRound, 0, FALSE, RollingDice>>
         ELSE <<initialPlacementRound, (currentPlayerIndex - 1 + 4) % 4,
                initialPlacementPhase, phase>>

\* advanceToNextPlayer, as the values it leaves in
\* <<initialPlacementRound, currentPlayerIndex, initialPlacementPhase, phase>>
advanceToNextPlayer ==
    IF initialPlacementRound = 1
    THEN IF currentPlayerIndex = 3
         THEN <<2, currentPlayerIndex, initialPlacementPhase, phase>>
         ELSE <<initialPlacementRound, (currentPlayerIndex + 1) % 4,
                initialPlacementPhase, phase>>
    ELSE IF currentPlayerIndex = 0
         THEN <<initialPlacementRound, 0, FALSE, RollingDice>>
         ELSE <<initialPlacementRound, (currentPlayerIndex - 1 + 4) % 4,
                initialPlacementPhase, phase>>

-----------------------------------------------------------------------------
(* GameEngine: costs *)

\* a faulty variant: the wheat is not looked at
canAffordSettlement_noWheat(player) ==
    /\ player.resources[Brick] >= 1 /\ player.resources[Wood] >= 1
    /\ player.resources[Sheep] >= 1

canAffordSettlement(player) ==
    /\ player.resources[Brick] >= 1 /\ player.resources[Wood] >= 1
    /\ player.resources[Sheep] >= 1 /\ player.resources[Wheat] >= 1

\* a faulty variant: the ore is not looked at
canAffordCity_wheatOnly(player) ==
    player.resources[Wheat] >= 2

canAffordCity(player) ==
    player.resources[Wheat] >= 2 /\ player.resources[Ore] >= 3

canAffordRoad(player) ==
    player.resources[Brick] >= 1 /\ player.resources[Wood] >= 1

payForSettlement(player) ==
    [player EXCEPT !.resources[Brick] = @ - 1, !.resources[Wood] = @ - 1,
                   !.resources[Sheep] = @ - 1, !.resources[Wheat] = @ - 1]

\* a faulty variant: the city is charged 2 ore
payForCity_short(player) ==
    [player EXCEPT !.resources[Wheat] = @ - 2, !.resources[Ore] = @ - 2]

payForCity(player) ==
    [player EXCEPT !.resources[Wheat] = @ - 2, !.resources[Ore] = @ - 3]

payForRoad(player) ==
    [player EXCEPT !.resources[Brick] = @ - 1, !.resources[Wood] = @ - 1]

-----------------------------------------------------------------------------
(* GameEngine: roads *)

getConnectedEdges(edgeId) ==
    {index \in EdgeIds :
        /\ index # edgeId
        /\ \/ edges[index].vertex1 = edges[edgeId].vertex1
           \/ edges[index].vertex1 = edges[edgeId].vertex2
           \/ edges[index].vertex2 = edges[edgeId].vertex1
           \/ edges[index].vertex2 = edges[edgeId].vertex2}

\* a faulty variant: every edge counts as connected
isRoadConnected_always(edgeId, playerId) == TRUE

isRoadConnected(edgeId, playerId) ==
    LET v1 == vertices[edges[edgeId].vertex1]
        v2 == vertices[edges[edgeId].vertex2]
        color == players[playerId].color
    IN  \/ (v1.building # null /\ v1.playerColor = color)
        \/ (v2.building # null /\ v2.playerColor = color)
        \/ \E connectedEdgeId \in getConnectedEdges(edgeId) :
              edges[connectedEdgeId].road = color

getEdgesConnectedToVertex(es, vertexId) ==
    {index \in EdgeIds : es[index].vertex1 = vertexId \/ es[index].vertex2 = vertexId}

\* es: the edges after the road just built
RECURSIVE findLongestPathFromEdge(_, _, _, _)
findLongestPathFromEdge(es, edgeId, color, visited) ==
    LET seen == visited \cup {edgeId}
        next == {nextEdgeId \in getEdgesConnectedToVertex(es, es[edgeId].vertex1)
                                \cup getEdgesConnectedToVertex(es, es[edgeId].vertex2) :
                    /\ nextEdgeId # edgeId
                    /\ nextEdgeId \notin seen
                    /\ es[nextEdgeId].road = color}
    IN  MaxOf({1} \cup {1 + findLongestPathFromEdge(es, n, color, seen) : n \in next})

calculateLongestRoad(es, color) ==
    LET playerRoads == {index \in EdgeIds : es[index].road = color}
    IN  IF playerRoads = {} THEN 0
        ELSE MaxOf({0} \cup {findLongestPathFromEdge(es, startEdgeId, color, {})
                             : startEdgeId \in playerRoads})

\* the players.forEach scan of updateLongestRoad from player i on;
\* acc = <<longestPlayer, longestLength>>
RECURSIVE scanLongest(_, _, _, _)
scanLongest(es, pl, i, acc) ==
    IF i > 3 THEN acc
    ELSE LET length == calculateLongestRoad(es, pl[i].color)
             step ==
                IF length > acc[2] THEN <<i, length>>
                ELSE IF length = acc[2] /\ length >= 5 /\ longestRoadPlayer = i
                     THEN <<i, acc[2]>>
                     ELSE acc
         IN  scanLongest(es, pl, i + 1, step)

\* updateLongestRoad, as the values it leaves in
\* <<players, longestRoadPlayer, longestRoadLength>>
updateLongestRoad(es, pl) ==
    LET found == scanLongest(es, pl, 0, <<nullNum, 0>>)
        longestPlayer == found[1]
        longestLength == found[2]
        removed ==
            IF longestRoadPlayer # nullNum /\ pl[longestRoadPlayer].hasLongestRoad
            THEN [pl EXCEPT ![longestRoadPlayer].victoryPoints = @ - 2,
                            ![longestRoadPlayer].hasLongestRoad = FALSE]
            ELSE pl
    IN  IF longestLength >= 5
        THEN IF longestPlayer # nullNum /\ longestPlayer # longestRoadPlayer
             THEN <<[removed EXCEPT ![longestPlayer].victoryPoints = @ + 2,
                                    ![longestPlayer].hasLongestRoad = TRUE],
                    longestPlayer, longestLength>>
             ELSE <<removed, longestRoadPlayer, longestRoadLength>>
        ELSE <<pl, longestRoadPlayer, longestRoadLength>>

-----------------------------------------------------------------------------
(* GameEngine: dice *)

\* players.find(p => p.color === color)
findPlayerByColor(pl, color) ==
    IF \E p \in PlayerIds : pl[p].color = color
    THEN CHOOSE p \in PlayerIds :
            pl[p].color = color /\ \A q \in PlayerIds : pl[q].color = color => p <= q
    ELSE nullNum

\* the adjacentVertices.forEach loop of distributeResources for one hex
RECURSIVE distributeToVertices(_, _, _)
distributeToVertices(pl, hex, vs) ==
    IF vs = {} THEN pl
    ELSE LET vertexId == CHOOSE k \in vs : TRUE
             vertex == vertices[vertexId]
             player == findPlayerByColor(pl, vertex.playerColor)
             amount == IF vertex.building = "city" THEN 2 ELSE 1
             credited ==
                IF /\ vertex.building # null /\ vertex.playerColor # null
                   /\ player # nullNum /\ hex.resourceType # Desert
                THEN [pl EXCEPT ![player].resources[hex.resourceType] = @ + amount]
                ELSE pl
         IN  distributeToVertices(credited, hex, vs \ {vertexId})

\* the matchingHexes.forEach loop of distributeResources
RECURSIVE distributeFromHexes(_, _)
distributeFromHexes(pl, hs) ==
    IF hs = {} THEN pl
    ELSE LET h == CHOOSE k \in hs : TRUE
         IN  distributeFromHexes(
                distributeToVertices(pl, hexes[h], getVerticesAdjacentToHex(h)),
                hs \ {h})

\* a faulty variant: the robber does not block its hex
distributeResources_ignoreRobber(pl, diceRoll) ==
    distributeFromHexes(pl, {h \in HexIds : hexes[h].numberToken = diceRoll})

distributeResources(pl, diceRoll) ==
    distributeFromHexes(pl,
        {h \in HexIds : hexes[h].numberToken = diceRoll /\ ~hexes[h].hasRobber})

totalResources(player) == SumOver(Productive, player.resources)

\* discardResources: shuffled.slice(0, count) can be any count cards of the hand
discardChoices(player, count) ==
    {d \in [Productive -> 0 .. count] :
        /\ \A r \in Productive : d[r] <= player.resources[r]
        /\ SumOver(Productive, d) = count}

\* a faulty variant: half the hand, rounded up
robberDiscards_roundUp(player) ==
    IF totalResources(player) > 7
    THEN discardChoices(player, (totalResources(player) + 1) \div 2)
    ELSE {[r \in Productive |-> 0]}

\* handleRobberActivation: what one player may be made to discard
robberDiscards(player) ==
    IF totalResources(player) > 7
    THEN discardChoices(player, totalResources(player) \div 2)
    ELSE {[r \in Productive |-> 0]}

\* rollDice with the dice showing die1 and die2, at most limit rolls returning
rollDiceUpTo(limit, die1, die2) ==
    /\ pc = "running"
    /\ IF diceRolled
       THEN /\ result' = "throw"
            /\ UNCHANGED <<pc, gameVars, rolls>>
       ELSE LET total == die1 + die2 IN
            /\ rolls < limit
            /\ diceRolled' = TRUE
            /\ lastDiceRoll' = total
            /\ lastDie1' = die1
            /\ lastDie2' = die2
            /\ rollHistory' = mapSet(rollHistory, total, getOr0(rollHistory, total) + 1)
            /\ IF total = 7
               THEN \E d0 \in robberDiscards(players[0]), d1 \in robberDiscards(players[1]),
                       d2 \in robberDiscards(players[2]), d3 \in robberDiscards(players[3]) :
                      LET discard == [p \in PlayerIds |->
                                        IF p = 0 THEN d0 ELSE IF p = 1 THEN d1
                                        ELSE IF p = 2 THEN d2 ELSE d3] IN
                      /\ players' = [p \in PlayerIds |->
                            [players[p] EXCEPT !.resources =
                                [r \in Productive |-> @[r] - discard[p][r]]]]
                      /\ bank' = [r \in Productive |->
                            bank[r] + SumOver(PlayerIds, [p \in PlayerIds |-> discard[p][r]])]
               ELSE /\ players' = distributeResources(players, total)
                    /\ bank' = bank
            /\ phase' = MainPhase
            /\ result' = "ok"
            /\ rolls' = rolls + 1
            /\ UNCHANGED <<pc, boardVars, roadVars, setupVars, currentPlayerIndex, turnNumber>>

rollDice(die1, die2) == rollDiceUpTo(MaxRolls, die1, die2)

-----------------------------------------------------------------------------
(* GameEngine: building *)

\* a faulty variant: a settlement bought after setup gets no owner
buildSettlement_noOwner(vertexId, playerId) ==
    /\ pc = "running"
    /\ IF initialPlacementPhase
       THEN IF canPlaceSettlement(vertexId, playerId)
            THEN /\ placeInitialSettlement(vertexId, playerId)
                 /\ result' = "true"
                 /\ UNCHANGED <<pc, bank, hexes, edges, diceVars, roadVars, turnVars,
                                initialPlacementPhase, initialPlacementRound, rolls>>
            ELSE /\ result' = "false"
                 /\ UNCHANGED <<pc, gameVars, rolls>>
       ELSE IF /\ canAffordSettlement(players[playerId])
               /\ vertices[vertexId].building = null
               /\ checkDistanceRule(vertexId)
            THEN /\ vertices' = [vertices EXCEPT ![vertexId].building = "settlement"]
                 /\ players' = [players EXCEPT ![playerId] =
                        payForSettlement([players[playerId] EXCEPT
                            !.settlements = @ + 1, !.victoryPoints = @ + 1])]
                 /\ result' = "true"
                 /\ UNCHANGED <<pc, bank, hexes, edges, diceVars, roadVars, setupVars,
                                turnVars, rolls>>
            ELSE /\ result' = "false"
                 /\ UNCHANGED <<pc, gameVars, rolls>>

\* a faulty variant: a settlement is bought without looking at what stands on
\* the vertex
buildSettlement_overBuilding(vertexId, playerId) ==
    /\ pc = "running"
    /\ IF initialPlacementPhase
       THEN IF canPlaceSettlement(vertexId, playerId)
            THEN /\ placeInitialSettlement(vertexId, playerId)
                 /\ result' = "true"
                 /\ UNCHANGED <<pc, bank, hexes, edges, diceVars, roadVars, turnVars,
                                initialPlacementPhase, initialPlacementRound, rolls>>
            ELSE /\ result' = "false"
                 /\ UNCHANGED <<pc, gameVars, rolls>>
       ELSE IF /\ canAffordSettlement(players[playerId])
               /\ checkDistanceRule(vertexId)
            THEN /\ vertices' = [vertices EXCEPT
                        ![vertexId].building = "settlement",
                        ![vertexId].playerColor = players[playerId].color]
                 /\ players' = [players EXCEPT ![playerId] =
                        payForSettlement([players[playerId] EXCEPT
                            !.settlements = @ + 1, !.victoryPoints = @ + 1])]
                 /\ result' = "true"
                 /\ UNCHANGED <<pc, bank, hexes, edges, diceVars, roadVars, setupVars,
                                turnVars, rolls>>
            ELSE /\ result' = "false"
                 /\ UNCHANGED <<pc, gameVars, rolls>>

buildSettlement(vertexId, playerId) ==
    /\ pc = "running"
    /\ IF initialPlacementPhase
       THEN IF canPlaceSettlement(vertexId, playerId)
            THEN /\ placeInitialSettlement(vertexId, playerId)
                 /\ result' = "true"
                 /\ UNCHANGED <<pc, bank, hexes, edges, diceVars, roadVars, turnVars,
                                initialPlacementPhase, initialPlacementRound, rolls>>
            ELSE /\ result' = "false"
                 /\ UNCHANGED <<pc, gameVars, rolls>>
       ELSE IF /\ canAffordSettlement(players[playerId])
               /\ vertices[vertexId].building = null
               /\ checkDistanceRule(vertexId)
            THEN /\ vertices' = [vertices EXCEPT
                        ![vertexId].building = "settlement",
                        ![vertexId].playerColor = players[playerId].color]
                 /\ players' = [players EXCEPT ![playerId] =
                        payForSettlement([players[playerId] EXCEPT
                            !.settlements = @ + 1, !.victoryPoints = @ + 1])]
                 /\ result' = "true"
                 /\ UNCHANGED <<pc, bank, hexes, edges, diceVars, roadVars, setupVars,
                                turnVars, rolls>>
            ELSE /\ result' = "false"
                 /\ UNCHANGED <<pc, gameVars, rolls>>

\* a faulty variant: the vertex is not looked at
buildCity_anyVertex(vertexId, playerId) ==
    /\ pc = "running"
    /\ IF canAffordCity(players[playerId])
       THEN /\ vertices' = [vertices EXCEPT ![vertexId].building = "city"]
            /\ players' = [players EXCEPT ![playerId] =
                    payForCity([players[playerId] EXCEPT
                        !.cities = @ + 1, !.settlements = @ - 1,
                        !.victoryPoints = @ + 1])]
            /\ result' = "true"
            /\ UNCHANGED <<pc, bank, hexes, edges, diceVars, roadVars, setupVars,
                           turnVars, rolls>>
       ELSE /\ result' = "false"
            /\ UNCHANGED <<pc, gameVars, rolls>>

buildCity(vertexId, playerId) ==
    /\ pc = "running"
    /\ IF /\ ~(vertices[vertexId].building # "settlement"
               \/ vertices[vertexId].playerColor # players[playerId].color)
          /\ canAffordCity(players[playerId])
       THEN /\ vertices' = [vertices EXCEPT ![vertexId].building = "city"]
            /\ players' = [players EXCEPT ![playerId] =
                    payForCity([players[playerId] EXCEPT
                        !.cities = @ + 1, !.settlements = @ - 1,
                        !.victoryPoints = @ + 1])]
            /\ result' = "true"
            /\ UNCHANGED <<pc, bank, hexes, edges, diceVars, roadVars, setupVars,
                           turnVars, rolls>>
       ELSE /\ result' = "false"
            /\ UNCHANGED <<pc, gameVars, rolls>>

buildRoad(edgeId, playerId, vertexId) ==
    /\ pc = "running"
    /\ IF initialPlacementPhase /\ vertexId # undefined
       THEN IF canPlaceRoad(edgeId, playerId, vertexId)
            THEN LET status == [placementsPerPlayer[playerId] EXCEPT !.roads = @ + 1]
                     round == initialPlacementRound
                     completed ==
                        \/ round = 1 /\ status.settlements >= 1 /\ status.roads >= 1
                        \/ round = 2 /\ status.settlements >= 2 /\ status.roads >= 2
                     next == IF completed THEN advanceToNextPlayer
                             ELSE <<initialPlacementRound, currentPlayerIndex,
                                    initialPlacementPhase, phase>>
                 IN  /\ edges' = [edges EXCEPT ![edgeId].road = players[playerId].color]
                     /\ players' = [players EXCEPT ![playerId].roads = @ + 1]
                     /\ placementsPerPlayer' =
                            [placementsPerPlayer EXCEPT ![playerId] = status]
                     /\ initialPlacementRound' = next[1]
                     /\ currentPlayerIndex' = next[2]
                     /\ initialPlacementPhase' = next[3]
                     /\ phase' = next[4]
                     /\ result' = "true"
                     /\ UNCHANGED <<pc, bank, hexes, vertices, diceVars, roadVars,
                                    turnNumber, rolls>>
            ELSE /\ result' = "false"
                 /\ UNCHANGED <<pc, gameVars, rolls>>
       ELSE IF /\ ~(edges[edgeId].road # null)
               /\ canAffordRoad(players[playerId])
               /\ isRoadConnected(edgeId, playerId)
            THEN LET built == [edges EXCEPT ![edgeId].road = players[playerId].color]
                     paid == [players EXCEPT ![playerId] =
                                payForRoad([players[playerId] EXCEPT !.roads = @ + 1])]
                     scored == updateLongestRoad(built, paid)
                 IN  /\ edges' = built
                     /\ players' = scored[1]
                     /\ longestRoadPlayer' = scored[2]
                     /\ longestRoadLength' = scored[3]
                     /\ result' = "true"
                     /\ UNCHANGED <<pc, bank, hexes, vertices, diceVars, setupVars,
                                    turnVars, rolls>>
            ELSE /\ result' = "false"
                 /\ UNCHANGED <<pc, gameVars, rolls>>

-----------------------------------------------------------------------------
(* GameEngine: robber and turn *)

moveRobber(hexId) ==
    /\ pc = "running"
    /\ hexes' = [h \in HexIds |->
            [hexes[h] EXCEPT !.hasRobber =
                h = hexId /\ hexes[hexId].resourceType # Desert]]
    /\ result' = "ok"
    /\ UNCHANGED <<pc, players, bank, vertices, edges, diceVars, roadVars, setupVars,
                   turnVars, rolls>>

\* a faulty variant: the winner check reads the player whose turn has ended
endTurnUpTo_outgoing(limit) ==
    /\ pc = "running"
    /\ turnNumber < limit
    /\ diceRolled' = FALSE
    /\ lastDie1' = nullNum
    /\ lastDie2' = nullNum
    /\ currentPlayerIndex' = (currentPlayerIndex + 1) % 4
    /\ turnNumber' = turnNumber + 1
    /\ phase' = IF players[currentPlayerIndex].victoryPoints >= 10
                THEN GameOver ELSE RollingDice
    /\ result' = "ok"
    /\ UNCHANGED <<pc, players, bank, boardVars, lastDiceRoll, rollHistory, roadVars,
                   setupVars, rolls>>

\* endTurn, at most limit times
endTurnUpTo(limit) ==
    /\ pc = "running"
    /\ turnNumber < limit
    /\ diceRolled' = FALSE
    /\ lastDie1' = nullNum
    /\ lastDie2' = nullNum
    /\ currentPlayerIndex' = (currentPlayerIndex + 1) % 4
    /\ turnNumber' = turnNumber + 1
    /\ phase' = IF players[(currentPlayerIndex + 1) % 4].victoryPoints >= 10
                THEN GameOver ELSE RollingDice
    /\ result' = "ok"
    /\ UNCHANGED <<pc, players, bank, boardVars, lastDiceRoll, rollHistory, roadVars,
                   setupVars, rolls>>

endTurn == endTurnUpTo(MaxTurns)

-----------------------------------------------------------------------------
(* GameEngine: the placement-option queries *)

\* getVertexPlacementOptions, as the set of options it returns
getVertexPlacementOptions(vertexId) ==
    LET currentPlayer == players[currentPlayerIndex]
        vertex == vertices[vertexId]
    IN  IF initialPlacementPhase
        THEN IF canPlaceSettlement(vertexId, currentPlayer.id)
             THEN {"settlement"} ELSE {}
        ELSE IF vertex.building = null
             THEN IF canAffordSettlement(currentPlayer) /\ checkDistanceRule(vertexId)
                  THEN {"settlement"} ELSE {}
             ELSE IF /\ vertex.building = "settlement"
                     /\ vertex.playerColor = currentPlayer.color
                  THEN IF canAffordCity(currentPlayer) THEN {"city"} ELSE {}
                  ELSE {}

\* getEdgePlacementOptions, as the set of options it returns
getEdgePlacementOptions(edgeId, vertexId) ==
    LET currentPlayer == players[currentPlayerIndex]
        edge == edges[edgeId]
    IN  IF initialPlacementPhase /\ vertexId # undefined
        THEN IF canPlaceRoad(edgeId, currentPlayer.id, vertexId)
             THEN {"road"} ELSE {}
        ELSE IF /\ edge.road = null
                /\ canAffordRoad(currentPlayer)
                /\ isRoadConnected(edgeId, currentPlayer.id)
             THEN {"road"} ELSE {}

\* the options array as the caller sees it: empty, or its one entry
optionsText(options) == IF options = {} THEN "[]" ELSE CHOOSE o \in options : TRUE

\* a call of getVertexPlacementOptions, its return value kept in result
getVertexPlacementOptionsCall(vertexId) ==
    /\ pc = "running"
    /\ result' = optionsText(getVertexPlacementOptions(vertexId))
    /\ UNCHANGED <<pc, gameVars, rolls>>

\* a call of getEdgePlacementOptions, its return value kept in result
getEdgePlacementOptionsCall(edgeId, vertexId) ==
    /\ pc = "running"
    /\ result' = optionsText(getEdgePlacementOptions(edgeId, vertexId))
    /\ UNCHANGED <<pc, gameVars, rolls>>

-----------------------------------------------------------------------------
(* GameEngine.assignPorts, run by the first drawBoard *)

\* the vertices touching at most 2 hexes, once positioned away from (0, 0)
findBorderVertices(vs) ==
    {vertexId \in VertexIds :
        /\ ~(vs[vertexId].x = 0 /\ vs[vertexId].y = 0)
        /\ Cardinality({h \in HexIds :
                \E c \in hexCorners(hexes[h]) :
                    isClose(distSq(vs[vertexId].x, vs[vertexId].y, c[1], c[2]))}) <= 2}

\* the road-free edges whose two ends are border vertices
findBorderEdges(vs, es) ==
    LET borderVertexSet == findBorderVertices(vs)
    IN  {edgeId \in EdgeIds :
            /\ es[edgeId].vertex1 \in borderVertexSet
            /\ es[edgeId].vertex2 \in borderVertexSet
            /\ es[edgeId].road = null}

\* twice getBoardCenterX / getBoardCenterY: min + max of the hex centres
boardCenter2 ==
    <<(CHOOSE x \in {hexes[h].x : h \in HexIds} : \A h \in HexIds : x <= hexes[h].x)
        + MaxOf({hexes[h].x : h \in HexIds}),
      (CHOOSE y \in {hexes[h].y : h \in HexIds} : \A h \in HexIds : y <= hexes[h].y)
        + MaxOf({hexes[h].y : h \in HexIds})>>

\* edgesWithPositions: each edge with twice the vector from the board centre
\* to its midpoint
edgesWithPositions(vs, es, edgeIds) ==
    LET center2 == boardCenter2
    IN  {[edgeId |-> e,
          dx |-> vs[es[e].vertex1].x + vs[es[e].vertex2].x - center2[1],
          dy |-> vs[es[e].vertex1].y + vs[es[e].vertex2].y - center2[2]]
         : e \in edgeIds}

\* angle = atan2(dy, dx) + PI/2, plus 2*PI when negative: 0 straight up, growing
\* clockwise; rightHalf is angle < PI, and within one half the angle grows
\* with the cross product (the x and y scales are both positive); equal
\* angles keep their array order
rightHalf(m) == m.dx > 0 \/ (m.dx = 0 /\ m.dy < 0)

angleBefore(a, b) ==
    LET cross == a.dx * b.dy - a.dy * b.dx
    IN  IF rightHalf(a) # rightHalf(b) THEN rightHalf(a)
        ELSE cross > 0 \/ (cross = 0 /\ a.edgeId < b.edgeId)

RECURSIVE sortByAngle(_)
sortByAngle(S) ==
    IF S = {} THEN <<>>
    ELSE LET first == CHOOSE a \in S : \A b \in S \ {a} : angleBefore(a, b)
         IN  <<first.edgeId>> \o sortByAngle(S \ {first})

sortEdgesByPerimeterPosition(vs, es, edgeIds) ==
    sortByAngle(edgesWithPositions(vs, es, edgeIds))

\* the 5 resource ports and the 4 generic ones, before shuffling
allPortTypes == <<Brick, Wood, Sheep, Wheat, Ore, "3:1", "3:1", "3:1", "3:1">>

\* outcomes of shuffleArray on the 9 port types
PortShuffles == {<<1, 2, 3, 4, 5, 6, 7, 8, 9>>, <<9, 3, 7, 1, 8, 5, 2, 6, 4>>}

portCount == 9

\* vs, es: the vertices and edges drawBoard has just positioned and connected
assignPorts(vs, es, perm) ==
    LET borderEdges == findBorderEdges(vs, es)
        sortedBorderEdges == sortEdgesByPerimeterPosition(vs, es, borderEdges)
        interval == Len(sortedBorderEdges) \div portCount
        shuffledPortTypes == shuffleArray(allPortTypes, perm)
        fixedPortEdges == [i \in 0 .. portCount - 1 |->
            sortedBorderEdges[((i * interval) % Len(sortedBorderEdges)) + 1]]
    IN  IF Cardinality(borderEdges) < 9 THEN es
        ELSE [e \in EdgeIds |->
                IF \E i \in 0 .. portCount - 1 : fixedPortEdges[i] = e
                THEN [es[e] EXCEPT !.port = shuffledPortTypes[
                        1 + CHOOSE i \in 0 .. portCount - 1 :
                            /\ fixedPortEdges[i] = e
                            /\ \A k \in 0 .. portCount - 1 :
                                  fixedPortEdges[k] = e => k <= i]]
                ELSE es[e]]

-----------------------------------------------------------------------------
(* GameRenderer.drawBoard, first run by LocalCatanGame.init before the UI *)
(* is wired, and again after every accepted placement and on resize; once *)
(* the ports are assigned a further run rewrites the same positions and   *)
(* endpoints (DrawBoardRepeats)                                            *)

drawBoard ==
    LET positioned == calculateVertexPositions(vertices)
        connected == connectEdgesToVertices(edges)
        hasPorts == \E e \in EdgeIds : edges[e].port # null
    IN  /\ pc' = "running"
        /\ vertices' = positioned
        /\ IF hasPorts THEN edges' = connected
           ELSE \E perm \in PortShuffles : edges' = assignPorts(positioned, connected, perm)
        /\ UNCHANGED <<players, bank, hexes, diceVars, roadVars, setupVars, turnVars,
                       result, rolls>>

\* a drawBoard after the first leaves the game state as it is
DrawBoardRepeats == [][pc = "running" /\ drawBoard => UNCHANGED gameVars]_vars

-----------------------------------------------------------------------------
(* The commands the model issues *)

\* die faces: the sums are 6, 7 (the robber) and 8
DieFaces == {3, 4}

\* per seat, the vertices and edges its build commands aim at
SettlementTargets == <<{8, 24, 50}, {17, 14, 19}, {29, 1}, {0, 7}>>
RoadTargets == <<{12, 28}, {26, 21}, {35, 2}, {0, 6}>>

\* the vertices its buildCity commands aim at: its own, and for seat 0 also
\* vertex 17, where only seat 1 settles
CityTargets == <<{8, 24, 50, 17}, {17, 14, 19}, {29, 1}, {0, 7}>>

\* the first target of every seat
HomeVertex == <<8, 17, 29, 0>>
HomeEdge == <<12, 26, 35, 0>>

\* the vertexId argument of buildRoad: absent, or some vertex
SupportingVertex == {undefined, 0}

RobberTargets == {0}

\* build commands for any seat at any time
BuildNext ==
    \/ \E p \in PlayerIds : \E v \in SettlementTargets[p + 1] : buildSettlement(v, p)
    \/ \E p \in PlayerIds : \E v \in CityTargets[p + 1] : buildCity(v, p)
    \/ \E p \in PlayerIds : \E e \in RoadTargets[p + 1] :
          \E v \in SupportingVertex : buildRoad(e, p, v)

\* dice, robber and turn commands
TurnNext ==
    \/ \E die1 \in DieFaces, die2 \in DieFaces : rollDice(die1, die2)
    \/ \E h \in RobberTargets : moveRobber(h)
    \/ endTurn

\* every command at any time, the builds aimed at each seat's first target
Next ==
    \/ drawBoard
    \/ \E p \in PlayerIds : buildSettlement(HomeVertex[p + 1], p)
    \/ \E p \in PlayerIds : buildCity(HomeVertex[p + 1], p)
    \/ \E p \in PlayerIds : \E v \in SupportingVertex : buildRoad(HomeEdge[p + 1], p, v)
    \/ TurnNext

Spec == Init /\ [][Next]_vars

\* build commands only
SetupNext == drawBoard \/ BuildNext

SetupSpec == Init /\ [][SetupNext]_vars

\* build commands at any time; dice, robber and turn commands once both
\* setup rounds are complete
PlayNext ==
    \/ drawBoard
    \/ BuildNext
    \/ ~initialPlacementPhase /\ TurnNext

PlaySpec == Init /\ [][PlayNext]_vars

\* build commands with a third road target for seats 0 and 1: for seat 1 edge
\* 29, between vertices 19 and 24, which continues edge 21 and ends on a vertex
\* of seat 0; for seat 0 edge 71, between vertices 50 and 53, far from its
\* setup pieces
NetworkSettlementTargets == <<{8, 24}, {17, 14}, {29, 1}, {0, 7}>>
NetworkRoadTargets == <<{12, 28, 71}, {26, 21, 29}, {35, 2}, {0, 6}>>

NetworkNext ==
    \/ drawBoard
    \/ \E p \in PlayerIds : \E v \in NetworkSettlementTargets[p + 1] : buildSettlement(v, p)
    \/ \E p \in PlayerIds : \E e \in NetworkRoadTargets[p + 1] :
          \E v \in SupportingVertex : buildRoad(e, p, v)

NetworkSpec == Init /\ [][NetworkNext]_vars

\* the setup placements alone, every road call carrying its vertex id
PlacementNext ==
    \/ \E p \in PlayerIds : \E v \in NetworkSettlementTargets[p + 1] : buildSettlement(v, p)
    \/ \E p \in PlayerIds : \E e \in RoadTargets[p + 1] : buildRoad(e, p, 0)

\* the second die of the turns played at the table: the sums are 6 and 7
TableFaces == {3, 4}

\* the robber is sent to hex 0 or to hex 3, the desert of one of the boards
TableRobberTargets == {0, 3}

\* setup, then turns as the buttons of UIManager offer them: the roll while the
\* phase is rollingDice, the end of the turn in the main phase; the robber is
\* moved after a 7
TableNext ==
    \/ drawBoard
    \/ initialPlacementPhase /\ PlacementNext
    \/ /\ phase = RollingDice /\ ~diceRolled
       /\ \E die2 \in TableFaces : rollDiceUpTo(TableRolls, 3, die2)
    \/ /\ diceRolled /\ lastDiceRoll = 7
       /\ \E h \in TableRobberTargets : moveRobber(h)
    \/ phase = MainPhase /\ endTurnUpTo(TableTurns)

TableSpec == Init /\ [][TableNext]_vars

\* setup, then turns as the buttons offer them, with build commands for any
\* seat once setup is complete, the road targets being those above
PurchaseNext ==
    \/ drawBoard
    \/ initialPlacementPhase /\ PlacementNext
    \/ /\ ~initialPlacementPhase
       /\ \/ \E p \in PlayerIds : \E v \in SettlementTargets[p + 1] : buildSettlement(v, p)
          \/ \E p \in PlayerIds : \E v \in CityTargets[p + 1] : buildCity(v, p)
          \/ \E p \in PlayerIds : \E e \in NetworkRoadTargets[p + 1] :
                \E v \in SupportingVertex : buildRoad(e, p, v)
    \/ /\ phase = RollingDice /\ ~diceRolled
       /\ \E die2 \in TableFaces : rollDice(3, die2)
    \/ phase = MainPhase /\ endTurn

PurchaseSpec == Init /\ [][PurchaseNext]_vars

\* setup, then turns in which every roll is a 6
SupplyNext ==
    \/ drawBoard
    \/ initialPlacementPhase /\ PlacementNext
    \/ phase = RollingDice /\ ~diceRolled /\ rollDiceUpTo(SupplyRolls, 3, 3)
    \/ phase = MainPhase /\ endTurnUpTo(SupplyTurns)

SupplySpec == Init /\ [][SupplyNext]_vars

\* per seat, the setup targets of a game in which seat 0 settles on vertices 8
\* and 18 and lays its setup roads on edges 13 (8-13) and 20 (13-18)
TrailSettlementTargets == <<{8, 18}, {17, 14}, {29, 1}, {0, 7}>>
TrailRoadTargets == <<{13, 20}, {26, 21}, {35, 2}, {0, 6}>>

\* the edges seat 0 buys roads on once setup is over: edge 14 (9-13), the third
\* edge at vertex 13, and edge 28 (18-24), which continues edge 20
TrailPurchases == {14, 28}

\* a call of calculateLongestRoad, its return value kept in result
calculateLongestRoadCall(playerId) ==
    /\ pc = "running"
    /\ result' = ToString(calculateLongestRoad(edges, players[playerId].color))
    /\ UNCHANGED <<pc, gameVars, rolls>>

\* setup, then road purchases of seat 0, the road length of any seat being
\* calculated at any time
TrailNext ==
    \/ drawBoard
    \/ /\ initialPlacementPhase
       /\ \/ \E p \in PlayerIds : \E v \in TrailSettlementTargets[p + 1] :
                buildSettlement(v, p)
          \/ \E p \in PlayerIds : \E e \in TrailRoadTargets[p + 1] : buildRoad(e, p, 0)
    \/ /\ ~initialPlacementPhase
       /\ \E e \in TrailPurchases : buildRoad(e, 0, undefined)
    \/ \E playerId \in PlayerIds : calculateLongestRoadCall(playerId)

TrailSpec == Init /\ [][TrailNext]_vars

\* a game played to its end.  Seat 0 (red) settles on vertex 36 (sheep 4, ore
\* 10, sheep 10) and on vertex 44 (wheat 9, brick 11, wood 11); the other seats
\* settle in the upper half of the board.  EndgameFirst and EndgameSecond are
\* the setup targets of the seats in rounds 1 and 2
EndgameFirst == <<36, 17, 8, 0>>
EndgameFirstRoad == <<45, 26, 12, 0>>
EndgameSecond == <<44, 14, 1, 7>>
EndgameSecondRoad == <<57, 21, 2, 6>>

\* the dice of the successive rolls, the first for turn 0: sums 11, 10, 9 and 4
EndgameDice ==
    <<<<5, 6>>,
      <<5, 6>>, <<5, 6>>, <<4, 6>>, <<3, 6>>,
      <<5, 6>>, <<4, 6>>, <<3, 6>>, <<5, 6>>,
      <<4, 6>>, <<1, 3>>, <<3, 6>>, <<5, 6>>,
      <<4, 6>>, <<3, 6>>, <<5, 6>>, <<1, 3>>,
      <<5, 6>>, <<4, 6>>, <<3, 6>>>>

\* the build commands of seat 0 in the order it issues them: roads on edges 51
\* and 44 join its setup roads 57 and 45 into the chain 44-40-35-30-36, edge 56
\* makes it 5 long; then settlements and cities; last a sixth road on edge 50
EndgamePlan ==
    <<[kind |-> "road", at |-> 51], [kind |-> "road", at |-> 44],
      [kind |-> "road", at |-> 56], [kind |-> "settlement", at |-> 35],
      [kind |-> "settlement", at |-> 45], [kind |-> "city", at |-> 44],
      [kind |-> "city", at |-> 36], [kind |-> "settlement", at |-> 46],
      [kind |-> "settlement", at |-> 43], [kind |-> "road", at |-> 50]>>

\* the purchases player p has made since setup
purchases(p) == players[p].roads + players[p].settlements + 2 * players[p].cities - 4

EndgamePlacement ==
    \/ /\ initialPlacementRound = 1
       /\ \E p \in PlayerIds :
             \/ buildSettlement(EndgameFirst[p + 1], p)
             \/ buildRoad(EndgameFirstRoad[p + 1], p, 0)
    \/ /\ initialPlacementRound = 2
       /\ \E p \in PlayerIds :
             \/ buildSettlement(EndgameSecond[p + 1], p)
             \/ buildRoad(EndgameSecondRoad[p + 1], p, 0)

\* the next build command of seat 0
EndgameBuild ==
    \E k \in {purchases(0) + 1} \cap DOMAIN EndgamePlan :
        \/ EndgamePlan[k].kind = "settlement" /\ buildSettlement(EndgamePlan[k].at, 0)
        \/ EndgamePlan[k].kind = "city" /\ buildCity(EndgamePlan[k].at, 0)
        \/ EndgamePlan[k].kind = "road" /\ buildRoad(EndgamePlan[k].at, 0, undefined)

\* setup, then turns as the buttons offer them (the roll while the phase is
\* rollingDice, the end of the turn in the main phase); seat 0 issues its next
\* build command during its own turns, after the roll, and once the game is over
EndgameNext ==
    \/ drawBoard
    \/ initialPlacementPhase /\ EndgamePlacement
    \/ /\ ~initialPlacementPhase /\ currentPlayerIndex = 0
       /\ phase \in {MainPhase, GameOver}
       /\ EndgameBuild
    \/ /\ phase = RollingDice /\ ~diceRolled
       /\ LET dice == EndgameDice[(rolls % Len(EndgameDice)) + 1]
          IN  rollDiceUpTo(EndgameRolls, dice[1], dice[2])
    \/ phase = MainPhase /\ endTurnUpTo(EndgameTurns)

EndgameSpec == Init /\ [][EndgameNext]_vars

\* the turns played at the table, the current seat also issuing build commands
\* in its main phase
HandNext ==
    \/ TableNext
    \/ /\ ~initialPlacementPhase /\ phase = MainPhase
       /\ \/ \E v \in SettlementTargets[currentPlayerIndex + 1] :
                buildSettlement(v, currentPlayerIndex)
          \/ \E v \in CityTargets[currentPlayerIndex + 1] :
                buildCity(v, currentPlayerIndex)
          \/ \E e \in NetworkRoadTargets[currentPlayerIndex + 1] :
                buildRoad(e, currentPlayerIndex, undefined)

HandSpec == Init /\ [][HandNext]_vars

\* a call of the public GameEngine.assignPorts by any caller
assignPortsCall ==
    /\ \E perm \in PortShuffles : edges' = assignPorts(vertices, edges, perm)
    /\ result' = "ok"
    /\ UNCHANGED <<pc, players, bank, hexes, vertices, diceVars, roadVars, setupVars,
                   turnVars, rolls>>

\* build commands, and assignPorts called at any time
PortNext == SetupNext \/ assignPortsCall

PortSpec == Init /\ [][PortNext]_vars

\* hex ids that name no hex: one past the last, and a negative one
InvalidRobberTargets == {19, -1}

\* the turns played at the table, the robber being sent to hexes that exist and
\* to hex ids that name none
TargetNext ==
    \/ TableNext
    \/ /\ diceRolled /\ lastDiceRoll = 7
       /\ \E h \in InvalidRobberTargets : moveRobber(h)

TargetSpec == Init /\ [][TargetNext]_vars

\* cells that are taken once setup is over: vertex 44 and edge 45 are seat 0's
\* own, vertex 17 and edge 26 are seat 1's
ContestedVertices == {44, 17}
ContestedEdges == {45, 26}

\* the game above, in which the seats also aim at cells that are taken: during
\* setup any seat repeats its first-round commands, and seat 0 in its own turns
\* tries to settle on, to upgrade and to lay a road on the contested cells
ContestNext ==
    \/ EndgameNext
    \/ /\ initialPlacementPhase
       /\ \E p \in PlayerIds :
             \/ buildSettlement(EndgameFirst[p + 1], p)
             \/ buildRoad(EndgameFirstRoad[p + 1], p, 0)
    \/ /\ ~initialPlacementPhase /\ currentPlayerIndex = 0
       /\ phase \in {MainPhase, GameOver}
       /\ \/ \E v \in ContestedVertices : buildSettlement(v, 0)
          \/ \E v \in ContestedVertices : buildCity(v, 0)
          \/ \E e \in ContestedEdges : buildRoad(e, 0, undefined)

ContestSpec == Init /\ [][ContestNext]_vars

\* a placement command that succeeds
LegalPlacement == PlacementNext /\ result' = "true"

\* connectEdgesToVertices has given the edges their endpoints
edgesConnected == \E e \in EdgeIds : edges[e].vertex1 # edges[e].vertex2

\* the board is drawn and the seats place their setup pieces; the page draws
\* the board when it is loaded, and the seats keep making legal placements
SeatsNext == drawBoard \/ PlacementNext

SeatsSpec ==
    /\ Init
    /\ [][SeatsNext]_vars
    /\ <>edgesConnected
    /\ WF_vars(initialPlacementPhase /\ LegalPlacement)

\* the calls of a caller that uses the whole interface of the engine while the
\* setup phase lasts: at most 3 rolls and 4 turn ends
QueryRolls == 3
QueryTurns == 4

\* the dice of those rolls: a 6, a 6 and an 8
QueryDice == << <<3, 3>>, <<3, 3>>, <<3, 5>> >>

\* seat 0's first setup pieces, rolls and turn ends at any time, build commands
\* of the current seat on seat 0's pieces, and the two queries
QueryNext ==
    \/ drawBoard
    \/ buildSettlement(HomeVertex[1], 0)
    \/ buildRoad(HomeEdge[1], 0, 0)
    \/ buildCity(HomeVertex[1], currentPlayerIndex)
    \/ buildRoad(HomeEdge[1], currentPlayerIndex, undefined)
    \/ /\ ~diceRolled
       /\ LET dice == QueryDice[(rolls % Len(QueryDice)) + 1]
          IN  rollDiceUpTo(QueryRolls, dice[1], dice[2])
    \/ endTurnUpTo(QueryTurns)
    \/ getVertexPlacementOptionsCall(HomeVertex[1])
    \/ \E v \in SupportingVertex : getEdgePlacementOptionsCall(HomeEdge[1], v)

QuerySpec == Init /\ [][QueryNext]_vars

\* the calls made once the game is over: one more roll and one more turn end
OverRolls == 21
OverTurns == 21

\* the robber is sent to hex 0
OverRobberTargets == {0}

\* the game above, the caller going on to roll, to end turns and to move the
\* robber when the phase is gameOver
OverNext ==
    \/ EndgameNext
    \/ /\ phase = GameOver
       /\ \/ /\ ~diceRolled
             /\ LET dice == EndgameDice[(rolls % Len(EndgameDice)) + 1]
                IN  rollDiceUpTo(OverRolls, dice[1], dice[2])
          \/ endTurnUpTo(OverTurns)
          \/ \E h \in OverRobberTargets : moveRobber(h)

OverSpec == Init /\ [][OverNext]_vars

-----------------------------------------------------------------------------
(* Properties: shared vocabulary *)

\* setup pieces (settlements and roads) placed so far by all seats
placedCount ==
    SumOver(PlayerIds, [p \in PlayerIds |->
        placementsPerPlayer[p].settlements + placementsPerPlayer[p].roads])

\* the seat that places setup piece number n (0-based): seats 0,1,2,3 then
\* 3,2,1,0, two pieces per visit
setupSeat(n) == IF n \div 2 < 4 THEN n \div 2 ELSE 7 - (n \div 2)

\* hex h has vertex v as one of its six corners
touches(h, v) ==
    \E i \in 1 .. 6 : /\ hexes[h].x + cornerDx[i] = vertices[v].x
                      /\ hexes[h].y + cornerDy[i] = vertices[v].y

\* the vertices joined to v by an edge
neighbours(v) ==
    {u \in VertexIds \ {v} :
        \E e \in EdgeIds : {edges[e].vertex1, edges[e].vertex2} = {u, v}}

\* what all players together gained of resource r in a step
gainedByAll(r) ==
    SumOver(PlayerIds, [p \in PlayerIds |->
        players'[p].resources[r] - players[p].resources[r]])

-----------------------------------------------------------------------------
(* C1: the setup order *)

\* a step that places a setup piece is taken by the seat whose visit it is, places
\* a settlement on even and a road on odd piece numbers, and leaves the round,
\* the current seat and the phase as the order prescribes; after the 16th piece
\* the phase is endPhase and the current seat is 0
SetupStepInOrder(endPhase) ==
    placementsPerPlayer' # placementsPerPlayer =>
        LET n == placedCount
            seat == setupSeat(n)
        IN  /\ n < 16
            /\ currentPlayerIndex = seat
            /\ placementsPerPlayer' =
                  [placementsPerPlayer EXCEPT ![seat] =
                      IF n % 2 = 0 THEN [@ EXCEPT !.settlements = @ + 1]
                                   ELSE [@ EXCEPT !.roads = @ + 1]]
            /\ initialPlacementRound' = (IF n + 1 < 8 THEN 1 ELSE 2)
            /\ currentPlayerIndex' = (IF n + 1 < 16 THEN setupSeat(n + 1) ELSE 0)
            /\ initialPlacementPhase' = (n + 1 < 16)
            /\ phase' = (IF n + 1 < 16 THEN InitialPlacement ELSE endPhase)

\* C1, as the code has it: successful setup placements visit the seats in the
\* order 0,1,2,3 then 3,2,1,0, a settlement then a road per visit; the round
\* becomes 2 after seat 3's round-1 road with seat 3 still current; after seat
\* 0's round-2 road the current seat is 0 and the phase is rollingDice
C1_SetupOrder == [][SetupStepInOrder(RollingDice)]_vars

\* C1, as stated: the same order, and after seat 0's round-2 road the phase
\* is main
C1_SetupEndsInMain == [][SetupStepInOrder(MainPhase)]_vars

\* C1: both rounds have been placed in full
C1_SetupComplete ==
    /\ ~initialPlacementPhase
    /\ \A p \in PlayerIds : placementsPerPlayer[p] = [settlements |-> 2, roads |-> 2]
    /\ currentPlayerIndex = 0
    /\ phase = RollingDice

-----------------------------------------------------------------------------
(* C2: the distance rule *)

\* C2: once the board is drawn, no edge has a building on both of its ends
C2_DistanceRule ==
    pc = "running" =>
        \A e \in EdgeIds :
            ~(/\ vertices[edges[e].vertex1].building # null
              /\ vertices[edges[e].vertex2].building # null)

\* C2: a seat holds a third building, bought in the main phase, and another
\* seat holds a building next to a vertex its commands aim at
C2_MainPhaseSettlement ==
    /\ ~initialPlacementPhase
    /\ players[0].settlements + players[0].cities = 3
    /\ vertices[50].building = "settlement"
    /\ vertices[14].building # null
    /\ vertices[19].building = null

-----------------------------------------------------------------------------
(* C3: what the setup phase lets through *)

\* C3, as stated: while initialPlacementPhase is true, buildCity, buildRoad
\* without a vertex id, and every build call for a seat other than the current
\* one leave the game state as it was
C3_SetupGatesBuilds ==
    [][initialPlacementPhase =>
        \A p \in PlayerIds :
            /\ \A v \in SettlementTargets[p + 1] :
                  buildCity(v, p) => UNCHANGED gameVars
            /\ \A e \in RoadTargets[p + 1] :
                  buildRoad(e, p, undefined) => UNCHANGED gameVars
            /\ p # currentPlayerIndex =>
                  /\ \A v \in SettlementTargets[p + 1] :
                        buildSettlement(v, p) => UNCHANGED gameVars
                  /\ \A e \in RoadTargets[p + 1] : \A sv \in SupportingVertex :
                        buildRoad(e, p, sv) => UNCHANGED gameVars]_vars

-----------------------------------------------------------------------------
(* C4: rejected setup attempts *)

\* a settlement attempt the setup rules forbid: wrong seat, a settlement when
\* the seat's road is due, an occupied vertex, a building next door
BadSettlementAttempt(v, p) ==
    \/ p # currentPlayerIndex
    \/ placementsPerPlayer[p].settlements >= initialPlacementRound
    \/ vertices[v].building # null
    \/ \E u \in neighbours(v) : vertices[u].building # null

\* a road attempt the setup rules forbid: wrong seat, a road before the round's
\* settlement, an occupied edge, no settlement of the player on either end
BadRoadAttempt(e, p) ==
    \/ p # currentPlayerIndex
    \/ placementsPerPlayer[p].settlements < initialPlacementRound
    \/ edges[e].road # null
    \/ ~ \E u \in {edges[e].vertex1, edges[e].vertex2} :
            /\ vertices[u].building = "settlement"
            /\ vertices[u].playerColor = players[p].color

-----------------------------------------------------------------------------
(* C5: the round-2 grant *)

\* the units of resource r a settlement on vertex v is granted: one per hex of
\* that resource around v (the desert has no resource to give)
grantAt(v, r) == Cardinality({h \in HexIds : touches(h, v) /\ hexes[h].resourceType = r})

\* C5: a successful setup settlement of seat p on vertex v gives p, in round 2,
\* one unit per non-desert hex around v and nobody else anything; in round 1 it
\* changes nobody's resources
C5_InitialGrant ==
    [][\A p \in PlayerIds : \A v \in VertexIds :
          (/\ placementsPerPlayer'[p].settlements = placementsPerPlayer[p].settlements + 1
           /\ vertices[v].building = null
           /\ vertices'[v].building = "settlement")
          => IF initialPlacementRound = 2
             THEN \A q \in PlayerIds : \A r \in Productive :
                    players'[q].resources[r] =
                        players[q].resources[r] + (IF q = p THEN grantAt(v, r) ELSE 0)
             ELSE \A q \in PlayerIds : players'[q].resources = players[q].resources]_vars

\* C5: seat 1 has just placed its round-2 settlement on vertex 17, between the
\* desert, an ore hex and a wheat hex, and holds one ore and one wheat
C5_GrantBesideDesert ==
    /\ initialPlacementRound = 2
    /\ placementsPerPlayer[1] = [settlements |-> 2, roads |-> 1]
    /\ vertices[17].building = "settlement"
    /\ hexes[3].resourceType = Desert
    /\ players[1].resources =
          [r \in Productive |-> IF r \in {Ore, Wheat} THEN 1 ELSE 0]
    /\ result = "true"

-----------------------------------------------------------------------------
(* C6, C7: dice and turn commands that should be refused *)

\* C6, as stated: while initialPlacementPhase is true, rollDice and endTurn
\* leave the current seat, the phase, the diceRolled flag, the turn counter,
\* the histogram and all resource counts as they were
C6_SetupRejectsDiceAndTurn ==
    [][initialPlacementPhase /\ ((\E die1 \in DieFaces, die2 \in DieFaces : rollDice(die1, die2))
                                 \/ endTurn)
        => UNCHANGED <<currentPlayerIndex, phase, diceRolled, turnNumber,
                       rollHistory, players, bank>>]_vars

\* C7, as stated: rollDice with the dice already rolled returns a failure
\* result, raises nothing, and leaves the dice values, the histogram, the
\* resources, the bank and the phase as they were
C7_AlreadyRolledIsAResult ==
    [][\A die1 \in DieFaces, die2 \in DieFaces :
          diceRolled /\ rollDice(die1, die2)
              => /\ result' # "throw"
                 /\ UNCHANGED <<diceVars, players, bank, phase>>]_vars

-----------------------------------------------------------------------------
(* C8: the roll record *)

\* the histogram count of a sum
countOf(history, sum) == IF sum \in DOMAIN history THEN history[sum] ELSE 0

\* C8: a successful roll records two die values in 1..6 and their sum, adds 1
\* to the histogram count of that sum and leaves the other counts alone; the
\* histogram keys lie in 2..12 and the counts add up to the successful rolls
C8_RollRecord ==
    /\ [](/\ DOMAIN rollHistory \subseteq 2 .. 12
          /\ SumOver(DOMAIN rollHistory, rollHistory) = rolls)
    /\ [][rolls' = rolls + 1 =>
            /\ lastDie1' \in 1 .. 6
            /\ lastDie2' \in 1 .. 6
            /\ lastDiceRoll' = lastDie1' + lastDie2'
            /\ \A sum \in 2 .. 12 :
                  countOf(rollHistory', sum) =
                      countOf(rollHistory, sum) + (IF sum = lastDiceRoll' THEN 1 ELSE 0)]_vars

\* C8: the same sum has been rolled in two turns
C8_SameSumTwice ==
    /\ rolls = 2
    /\ turnNumber = 1
    /\ lastDiceRoll = 6
    /\ countOf(rollHistory, 6) = 2

-----------------------------------------------------------------------------
(* C9, C10: distribution *)

\* the hexes that pay resource r on the sum s
payingHexes(s, r) ==
    {h \in HexIds : /\ hexes[h].numberToken = s
                    /\ hexes[h].resourceType = r
                    /\ ~hexes[h].hasRobber}

\* the vertices where player p has a building of the given kind
builtBy(p, kind) ==
    {v \in VertexIds : /\ vertices[v].building = kind
                       /\ vertices[v].playerColor = players[p].color}

\* what player p is due of resource r on the sum s: 1 per settlement and 2 per
\* city on a corner of a paying hex, counted once per hex
dueTo(p, r, s) ==
    Cardinality({hv \in payingHexes(s, r) \X builtBy(p, "settlement") :
                    touches(hv[1], hv[2])})
    + 2 * Cardinality({hv \in payingHexes(s, r) \X builtBy(p, "city") :
                    touches(hv[1], hv[2])})

\* C9: after a roll with a sum other than 7, each player has gained of each
\* resource exactly what the hexes with that token and no robber pay: 1 per
\* adjoining settlement, 2 per adjoining city; nobody has lost anything
C9_Distribution ==
    [][rolls' = rolls + 1 /\ lastDiceRoll' # 7 =>
            \A p \in PlayerIds : \A r \in Productive :
                /\ players'[p].resources[r] =
                      players[p].resources[r] + dueTo(p, r, lastDiceRoll')
                /\ players'[p].resources[r] >= players[p].resources[r]]_vars

\* C9: with the robber on the ore hex 0 and a city of seat 0 on vertex 8, a 6
\* has just paid that city 2 wheat from hex 1 and no ore
C9_CityPaidRobberBlocks ==
    /\ vertices[8].building = "city"
    /\ vertices[8].playerColor = players[0].color
    /\ hexes[0].hasRobber
    /\ hexes[0].numberToken = 6
    /\ rolls = 2
    /\ diceRolled
    /\ lastDiceRoll = 6
    /\ players[0].resources[Wheat] = 2
    /\ players[0].resources[Ore] = 0

\* C10, as stated: after the round-2 grant and after a distribution, the bank
\* holds of each resource as much less as the players together gained
C10_BankPaysOut ==
    [][(\/ rolls' = rolls + 1 /\ lastDiceRoll' # 7
        \/ \E p \in PlayerIds :
              placementsPerPlayer'[p].settlements # placementsPerPlayer[p].settlements)
        => \A r \in Productive : bank'[r] = bank[r] - gainedByAll(r)]_vars

-----------------------------------------------------------------------------
(* C11: the supply of the bank *)

\* the cards of resource r in the hands of all players
inHands(r) == SumOver(PlayerIds, [p \in PlayerIds |-> players[p].resources[r]])

\* the cards of resource r the bank starts with
supplyOf(r) == RESOURCE_DISTRIBUTION[r] * 19

-----------------------------------------------------------------------------
(* C12: the discard on a 7 *)

\* the number of cards in a hand
cardsIn(hand) == SumOver(Productive, hand)

\* C12: on a roll of 7 every player holding T > 7 cards is left with
\* T - floor(T/2) cards, no count of a resource rising or going negative, every
\* other player keeps their hand, and the bank gains of each resource exactly
\* the cards the players lost
C12_DiscardOnSeven ==
    [][rolls' = rolls + 1 /\ lastDiceRoll' = 7 =>
        /\ \A p \in PlayerIds :
              LET T == cardsIn(players[p].resources) IN
              IF T > 7
              THEN /\ cardsIn(players'[p].resources) = T - (T \div 2)
                   /\ \A r \in Productive :
                         /\ players'[p].resources[r] <= players[p].resources[r]
                         /\ players'[p].resources[r] >= 0
              ELSE players'[p].resources = players[p].resources
        /\ \A r \in Productive :
              bank'[r] = bank[r] + SumOver(PlayerIds, [p \in PlayerIds |->
                            players[p].resources[r] - players'[p].resources[r]])]_vars

\* C12: after three sixes a 7 has just been rolled; seat 0, whose settlement
\* on vertex 8 was its round-2 one, held 9 cards and is left with 5, and the
\* bank holds at least 4 cards more than the 342 it started with
C12_NineCardsDiscardFour ==
    /\ rolls = 4
    /\ diceRolled
    /\ lastDiceRoll = 7
    /\ countOf(rollHistory, 6) = 3
    /\ cardsIn(players[0].resources) = 5
    /\ cardsIn(bank) >= 346

-----------------------------------------------------------------------------
(* C13: the turn after a 7 *)

\* C13, as stated: a roll whose sum is 7 does not enter the main phase; the
\* main phase is entered only once moveRobber has moved the robber
C13_RobberStepAfterSeven ==
    [][rolls' = rolls + 1 /\ lastDiceRoll' = 7 => phase' # MainPhase]_vars

-----------------------------------------------------------------------------
(* C14: the robber *)

\* C14, as stated: exactly one hex holds the robber
C14_OneRobber == Cardinality({h \in HexIds : hexes[h].hasRobber}) = 1

-----------------------------------------------------------------------------
(* C15 .. C20: builds of the main phase *)

\* the fixed cost table
costOf(kind) ==
    [r \in Productive |->
        CASE kind = "settlement" -> (IF r \in {Brick, Wood, Sheep, Wheat} THEN 1 ELSE 0)
          [] kind = "city" -> (IF r = Wheat THEN 2 ELSE IF r = Ore THEN 3 ELSE 0)
          [] kind = "road" -> (IF r \in {Brick, Wood} THEN 1 ELSE 0)]

affords(p, kind) == \A r \in Productive : players[p].resources[r] >= costOf(kind)[r]

roadEnds(e) == {edges[e].vertex1, edges[e].vertex2}

\* edge e has an end that holds a building of player p or is an end of another
\* edge carrying a road of p
linked(e, p) ==
    \E u \in roadEnds(e) :
        \/ vertices[u].building # null /\ vertices[u].playerColor = players[p].color
        \/ \E f \in EdgeIds \ {e} : edges[f].road = players[p].color /\ u \in roadEnds(f)

\* what a step built for player p outside the setup placements
boughtBy(p) ==
    IF placementsPerPlayer' # placementsPerPlayer THEN "none"
    ELSE IF players'[p].cities = players[p].cities + 1 THEN "city"
    ELSE IF players'[p].settlements = players[p].settlements + 1 THEN "settlement"
    ELSE IF players'[p].roads = players[p].roads + 1 THEN "road"
    ELSE "none"

\* the victory points player p gains or loses with the longest-road award
awardDelta(p) ==
    2 * ((IF players'[p].hasLongestRoad THEN 1 ELSE 0)
         - (IF players[p].hasLongestRoad THEN 1 ELSE 0))

\* C15: a step that builds a settlement, a city or a road for player p outside
\* the setup placements takes exactly the fixed cost from p, gives p +1 victory
\* point for a settlement or a city and only the longest-road award for a road,
\* and leaves every other player's resources as they were
C15_BuildCosts ==
    [][\A p \in PlayerIds :
          boughtBy(p) # "none" =>
              /\ \A r \in Productive :
                    players'[p].resources[r] = players[p].resources[r] - costOf(boughtBy(p))[r]
              /\ players'[p].victoryPoints = players[p].victoryPoints
                    + (IF boughtBy(p) = "road" THEN awardDelta(p) ELSE 1)
              /\ \A q \in PlayerIds \ {p} : players'[q].resources = players[q].resources]_vars

\* C15: seat 0 has just turned its settlement on vertex 8 into a city with its
\* last 2 wheat and 3 ore and holds 3 victory points
C15_CityBought ==
    /\ ~initialPlacementPhase
    /\ vertices[8].building = "city"
    /\ players[0].cities = 1
    /\ players[0].settlements = 1
    /\ players[0].victoryPoints = 3
    /\ players[0].resources[Wheat] = 0
    /\ players[0].resources[Ore] = 0
    /\ result = "true"

\* the grounds on which the main-phase code refuses a build
SettlementRefused(v, p) ==
    \/ ~affords(p, "settlement")
    \/ vertices[v].building # null
    \/ \E u \in neighbours(v) : vertices[u].building # null

CityRefused(v, p) ==
    \/ ~affords(p, "city")
    \/ vertices[v].building # "settlement"
    \/ vertices[v].playerColor # players[p].color

RoadRefused(e, p) ==
    \/ ~affords(p, "road")
    \/ edges[e].road # null
    \/ ~linked(e, p)

\* C16: a build call that runs the main-phase code and is unaffordable, aims
\* at an occupied target, breaks the distance rule, is not connected or aims at
\* a vertex that is not the player's settlement returns false and leaves the
\* whole game state as it was (a step either returns false with the state
\* unchanged, or returns no boolean and so is no build call, or is no such call)
C16_RefusedBuilds ==
    [][\/ result' = "false" /\ UNCHANGED gameVars
       \/ result' \notin {"true", "false"}
       \/ \A p \in PlayerIds :
            /\ \A v \in SettlementTargets[p + 1] :
                  ~(/\ ~initialPlacementPhase
                    /\ SettlementRefused(v, p)
                    /\ buildSettlement(v, p))
            /\ \A v \in CityTargets[p + 1] :
                  ~(CityRefused(v, p) /\ buildCity(v, p))
            /\ \A e \in NetworkRoadTargets[p + 1] : \A sv \in SupportingVertex :
                  ~(/\ ~initialPlacementPhase \/ sv = undefined
                    /\ RoadRefused(e, p)
                    /\ buildRoad(e, p, sv))]_vars

\* C16: after setup and after the roll of the turn, a build has just been
\* refused while seat 0 holds 2 wheat and less than 3 ore: a city it cannot pay
\* for is among the calls refused
C16_RefusedAfterRoll ==
    /\ ~initialPlacementPhase
    /\ diceRolled
    /\ phase = MainPhase
    /\ result = "false"
    /\ players[0].resources[Wheat] >= 2
    /\ players[0].resources[Ore] < 3
    /\ players[0].settlements = 2

\* C17, as stated: a settlement built outside the setup placements stands on an
\* end of a road of its owner
C17_SettlementNeedsRoad ==
    [][\A p \in PlayerIds : \A v \in VertexIds :
          (/\ placementsPerPlayer' = placementsPerPlayer
           /\ vertices[v].building = null
           /\ vertices'[v].building = "settlement"
           /\ vertices'[v].playerColor = players[p].color)
          => \E e \in EdgeIds : edges[e].road = players[p].color /\ v \in roadEnds(e)]_vars

\* C18: a road built by the main-phase code lies on an edge that was free and
\* has an end holding a building of the builder or shared with a road the
\* builder already owns; a call aimed at a taken edge, or at an edge linked to
\* nothing of the builder (whatever other players have there), returns false
\* and changes nothing
C18_RoadLegality ==
    [][\A p \in PlayerIds :
          /\ boughtBy(p) = "road" =>
                \E e \in EdgeIds : /\ edges[e].road = null
                                   /\ edges'[e].road = players[p].color
                                   /\ \A f \in EdgeIds \ {e} : edges'[f].road = edges[f].road
                                   /\ linked(e, p)
          /\ \A e \in NetworkRoadTargets[p + 1] : \A sv \in SupportingVertex :
                (/\ ~initialPlacementPhase \/ sv = undefined
                 /\ edges[e].road # null \/ ~linked(e, p)
                 /\ buildRoad(e, p, sv))
                => result' = "false" /\ UNCHANGED gameVars]_vars

\* C18: after setup seat 1 has bought a third road, on edge 29: it continues
\* the seat's road on edge 21 from the empty vertex 19 and ends on vertex 24,
\* where seat 0 has a settlement
C18_RoadContinued ==
    /\ ~initialPlacementPhase
    /\ placementsPerPlayer[1].roads = 2
    /\ players[1].roads = 3
    /\ edges[29].road = players[1].color
    /\ edges[21].road = players[1].color
    /\ vertices[19].building = null
    /\ vertices[24].building = "settlement"
    /\ vertices[24].playerColor = players[0].color

\* C19: a vertex becomes a city only from a settlement of the same owner, whose
\* settlement count drops by 1 and city count rises by 1; and a buildCity call
\* on an empty vertex, on a city or on another player's settlement returns
\* false and changes nothing (a step either returns false with the state
\* unchanged, or it upgrades as said and is no such call)
C19_CityUpgrade ==
    [][\/ result' = "false" /\ UNCHANGED gameVars
       \/ /\ \A v \in VertexIds :
                (vertices'[v].building = "city" /\ vertices[v].building # "city") =>
                    /\ vertices[v].building = "settlement"
                    /\ vertices'[v].playerColor = vertices[v].playerColor
                    /\ \E p \in PlayerIds :
                          /\ players[p].color = vertices[v].playerColor
                          /\ players'[p].settlements = players[p].settlements - 1
                          /\ players'[p].cities = players[p].cities + 1
                          /\ \A q \in PlayerIds \ {p} :
                                /\ players'[q].settlements = players[q].settlements
                                /\ players'[q].cities = players[q].cities
          /\ \A p \in PlayerIds : \A v \in CityTargets[p + 1] :
                ~(/\ \/ vertices[v].building # "settlement"
                     \/ vertices[v].playerColor # players[p].color
                  /\ buildCity(v, p))]_vars

\* C19: seat 0 has turned its settlement on vertex 8 into a city, seat 1 has a
\* settlement on vertex 17, and a call made after the upgrade has been refused
C19_CityBesideForeignSettlement ==
    /\ vertices[8].building = "city"
    /\ vertices[8].playerColor = players[0].color
    /\ players[0].cities = 1
    /\ players[0].settlements = 1
    /\ vertices[17].building = "settlement"
    /\ vertices[17].playerColor = players[1].color
    /\ rolls = 1
    /\ result = "false"

\* C20, as stated: once setup is over, a build call for a seat other than the
\* current one returns false and leaves the game state as it was
C20_OnlyCurrentSeatBuilds ==
    [][~initialPlacementPhase =>
        \A p \in PlayerIds \ {currentPlayerIndex} :
            /\ \A v \in SettlementTargets[p + 1] :
                  buildSettlement(v, p) => result' = "false" /\ UNCHANGED gameVars
            /\ \A v \in CityTargets[p + 1] :
                  buildCity(v, p) => result' = "false" /\ UNCHANGED gameVars
            /\ \A e \in RoadTargets[p + 1] : \A sv \in SupportingVertex :
                  buildRoad(e, p, sv) => result' = "false" /\ UNCHANGED gameVars]_vars

-----------------------------------------------------------------------------
(* C21: the order of the commands within a turn *)

\* C21, as stated: once setup is over, while the turn's roll has not been made
\* (phase rollingDice, diceRolled false) an endTurn or a build call leaves the
\* game state as it was
C21_RollComesFirst ==
    [][~initialPlacementPhase /\ phase = RollingDice /\ ~diceRolled =>
        /\ endTurn => UNCHANGED gameVars
        /\ \A p \in PlayerIds :
              /\ \A v \in SettlementTargets[p + 1] :
                    buildSettlement(v, p) => result' = "false" /\ UNCHANGED gameVars
              /\ \A v \in CityTargets[p + 1] :
                    buildCity(v, p) => result' = "false" /\ UNCHANGED gameVars
              /\ \A e \in RoadTargets[p + 1] : \A sv \in SupportingVertex :
                    buildRoad(e, p, sv) => result' = "false" /\ UNCHANGED gameVars]_vars

-----------------------------------------------------------------------------
(* C29: buildings and their owners *)

\* C29: at every vertex the building and the playerColor are both null or both
\* set, whatever setup placements, purchases and upgrades have been made
C29_BuildingHasOwner ==
    \A v \in VertexIds :
        (vertices[v].building = null) <=> (vertices[v].playerColor = null)

\* C29: seat 0 has bought a settlement on vertex 35 and upgraded its setup
\* settlement on vertex 44, seat 1 keeps its setup settlement on vertex 17, and
\* vertex 43 is still empty
C29_BoughtAndUpgraded ==
    /\ ~initialPlacementPhase
    /\ vertices[35].building = "settlement"
    /\ vertices[35].playerColor = players[0].color
    /\ vertices[44].building = "city"
    /\ vertices[44].playerColor = players[0].color
    /\ vertices[17].building = "settlement"
    /\ vertices[17].playerColor = players[1].color
    /\ vertices[43].building = null
    /\ vertices[43].playerColor = null

-----------------------------------------------------------------------------
(* C25: the length calculateLongestRoad returns *)

\* the edges carrying a road of the colour
ownedEdges(color) == {e \in EdgeIds : edges[e].road = color}

\* the longest walk over the edges in free that starts at vertex v, uses no
\* edge twice and leaves every edge by the end it did not arrive at
RECURSIVE trailFrom(_, _)
trailFrom(v, free) ==
    MaxOf({0} \cup
          {1 + trailFrom(IF edges[e].vertex1 = v THEN edges[e].vertex2
                                                 ELSE edges[e].vertex1,
                         free \ {e}) :
              e \in {f \in free : edges[f].vertex1 = v \/ edges[f].vertex2 = v}})

\* the longest trail in the roads of the colour
longestTrail(color) ==
    MaxOf({0} \cup {trailFrom(v, ownedEdges(color)) : v \in VertexIds})

\* C25, as stated: for every player and every set of owned edges,
\* calculateLongestRoad returns the length of the longest trail in the
\* player's roads (5 for a straight chain of 5 edges, the two longest branches
\* together for a Y)
C25_LongestTrail ==
    [][\A playerId \in PlayerIds :
          calculateLongestRoadCall(playerId)
              => result' = ToString(longestTrail(players[playerId].color))]_vars

-----------------------------------------------------------------------------
(* C22 to C24: the end of a turn and the end of the game *)

\* C22: a step that ends a turn (the turn counter changes) leaves diceRolled
\* false and both die values cleared, makes (seat + 1) mod 4 the current seat,
\* adds exactly 1 to the turn counter, sets the phase to gameOver if the new
\* current player has 10 victory points or more and to rollingDice otherwise,
\* and changes no player record, vertex or edge
C22_EndTurn ==
    [][turnNumber' # turnNumber =>
        /\ diceRolled' = FALSE
        /\ lastDie1' = nullNum
        /\ lastDie2' = nullNum
        /\ currentPlayerIndex' = (currentPlayerIndex + 1) % 4
        /\ turnNumber' = turnNumber + 1
        /\ phase' = IF players'[currentPlayerIndex'].victoryPoints >= 10
                    THEN GameOver ELSE RollingDice
        /\ UNCHANGED <<players, vertices, edges>>]_vars

\* C22: seat 3 has just ended its turn, seat 0 is the current player again and
\* has 10 victory points, and the phase is gameOver
C22_WinnerFoundAtEndOfTurn ==
    /\ phase = GameOver
    /\ result = "ok"
    /\ currentPlayerIndex = 0
    /\ players[0].victoryPoints = 10
    /\ turnNumber = 20
    /\ ~diceRolled
    /\ lastDie1 = nullNum

\* C23, as stated: a step in which a player with 9 victory points builds a
\* settlement and so reaches 10 leaves the phase gameOver
C23_TenthPointEndsGame ==
    [][\A p \in PlayerIds :
          /\ players[p].victoryPoints = 9
          /\ players'[p].victoryPoints = 10
          /\ players'[p].settlements = players[p].settlements + 1
          => phase' = GameOver]_vars

\* C24, as stated: while the phase is gameOver a build call returns false and
\* leaves the game state as it was
C24_NoBuildsAfterTheEnd ==
    [][phase = GameOver /\ EndgameBuild
          => result' = "false" /\ UNCHANGED gameVars]_vars

-----------------------------------------------------------------------------
(* C26 to C28: the longest-road bonus *)

\* a road has been bought: the step is a main-phase buildRoad that returned true
roadBought ==
    /\ placementsPerPlayer' = placementsPerPlayer
    /\ \E p \in PlayerIds : players'[p].roads = players[p].roads + 1

\* the longest trail of player p once the step is made
trailAfter(p) == longestTrail(players[p].color)'

\* C26, as stated: after a road has been bought, a player whose longest trail
\* is 5 or more and longer than every other player's is named by
\* longestRoadPlayer and has the hasLongestRoad flag set; and when no trail is 5
\* or more nobody is named and no flag is set
C26_LongestRoadHolder ==
    [][roadBought =>
        /\ \A p \in PlayerIds :
              (/\ trailAfter(p) >= 5
               /\ \A q \in PlayerIds \ {p} : trailAfter(q) < trailAfter(p))
              => longestRoadPlayer' = p /\ players'[p].hasLongestRoad
        /\ (\A p \in PlayerIds : trailAfter(p) < 5)
              => /\ longestRoadPlayer' = nullNum
                 /\ \A p \in PlayerIds : ~players'[p].hasLongestRoad]_vars

\* C27, as stated: when a road is bought and no other player's trail is then
\* longer than that of the player holding the bonus, longestRoadPlayer, the
\* holder's flag and the holder's victory points stay as they were and no other
\* player has the flag
C27_HolderKeepsBonus ==
    [][\A h \in PlayerIds :
          (/\ roadBought
           /\ longestRoadPlayer = h
           /\ players[h].hasLongestRoad
           /\ \A q \in PlayerIds \ {h} : trailAfter(q) <= trailAfter(h))
          => /\ longestRoadPlayer' = h
             /\ players'[h].hasLongestRoad
             /\ players'[h].victoryPoints = players[h].victoryPoints
             /\ \A q \in PlayerIds \ {h} : ~players'[q].hasLongestRoad]_vars

\* the victory points of player p for buildings and bonuses
pointsOf(p) ==
    players[p].settlements + 2 * players[p].cities
    + (IF players[p].hasLongestRoad THEN 2 ELSE 0)
    + (IF players[p].hasLargestArmy THEN 2 ELSE 0)

\* C28, as stated: always, the victory points of every player are its
\* settlements + 2 x its cities + 2 per bonus flag; a step that sets the
\* longest-road flag adds exactly 2 victory points and a step that clears it
\* removes exactly 2; and a road bought without a change of longestRoadPlayer
\* changes nobody's victory points
C28_VictoryPoints ==
    /\ [](\A p \in PlayerIds : players[p].victoryPoints = pointsOf(p))
    /\ [][\A p \in PlayerIds :
            /\ players'[p].hasLongestRoad # players[p].hasLongestRoad
                  => players'[p].victoryPoints = players[p].victoryPoints + awardDelta(p)
            /\ roadBought /\ longestRoadPlayer' = longestRoadPlayer
                  => players'[p].victoryPoints = players[p].victoryPoints]_vars

-----------------------------------------------------------------------------
(* C30: resource counts *)

\* C30: every player's count of every productive resource is a natural number,
\* whatever grants, distributions, discards on a 7 and build payments have been
\* made
C30_HandsNeverNegative ==
    \A p \in PlayerIds : \A r \in Productive :
        players[p].resources[r] \in Nat

\* C30: seat 1 has paid for a road on edge 29; three sixes have brought seat
\* 0, which has bought nothing, 3 ore and 3 wheat on top of its setup grant of
\* 3 cards, and the 7 just rolled has left it 5 cards
C30_PaidAndDiscarded ==
    /\ edges[29].road = players[1].color
    /\ players[1].roads = 3
    /\ countOf(rollHistory, 6) = 3
    /\ lastDiceRoll = 7
    /\ diceRolled
    /\ players[0].settlements = 2
    /\ players[0].roads = 2
    /\ totalResources(players[0]) = 5

-----------------------------------------------------------------------------
(* C31: the ports *)

\* the edges that carry a port
portEdges == {e \in EdgeIds : edges[e].port # null}

\* the number of edges that carry the port type t
portsOfType(t) == Cardinality({e \in portEdges : edges[e].port = t})

\* C31, as stated: the edges carrying a port are none, or exactly 9 with one
\* port of each of the 5 resources and 4 generic ones; the step that assigns
\* them puts them on border edges without a road; and once there are ports no
\* step (a drawBoard, an assignPorts call) changes the port of any edge
C31_PortsAssignedOnce ==
    /\ [](\/ portEdges = {}
          \/ /\ Cardinality(portEdges) = 9
             /\ \A r \in Productive : portsOfType(r) = 1
             /\ portsOfType("3:1") = 4)
    /\ [][/\ portEdges = {} =>
                portEdges' \subseteq findBorderEdges(vertices', [e \in EdgeIds |->
                                        [edges'[e] EXCEPT !.port = null]])
          /\ portEdges # {} =>
                \A e \in EdgeIds : edges'[e].port = edges[e].port]_vars

-----------------------------------------------------------------------------
(* C32, C33: the topology of the board *)

\* the edges that have vertex v as an endpoint
edgesAt(v) == {e \in EdgeIds : edges[e].vertex1 = v \/ edges[e].vertex2 = v}

\* every edge joins two different vertices and no vertex ends more than 3 edges
topologyComplete ==
    /\ \A e \in EdgeIds :
          /\ edges[e].vertex1 \in VertexIds
          /\ edges[e].vertex2 \in VertexIds
          /\ edges[e].vertex1 # edges[e].vertex2
    /\ \A v \in VertexIds : Cardinality(edgesAt(v)) <= 3

\* C32, as stated: in every state from the creation of the game on there are 19
\* hexes, 54 vertices and 72 edges, every edge has two distinct endpoints and
\* every vertex is an endpoint of at most 3 edges
C32_BoardTopology ==
    /\ Cardinality(DOMAIN hexes) = 19
    /\ Cardinality(DOMAIN vertices) = 54
    /\ Cardinality(DOMAIN edges) = 72
    /\ topologyComplete

\* C33, as stated: a drawBoard changes nothing of the engine state but the
\* ports: the vertices (positions, buildings, owners), the endpoints and roads
\* of the edges, the players and the phase are after it what they were before
C33_RenderingReadsOnly ==
    [][drawBoard =>
        /\ vertices' = vertices
        /\ \A e \in EdgeIds :
              /\ edges'[e].vertex1 = edges[e].vertex1
              /\ edges'[e].vertex2 = edges[e].vertex2
              /\ edges'[e].road = edges[e].road
        /\ UNCHANGED <<players, phase, hexes>>]_vars

-----------------------------------------------------------------------------
(* C34: targets that do not exist *)

\* C34, as stated, for moveRobber: a call with a hex id that names no hex is
\* answered with a failure and leaves the game state as it was, the robber on
\* the hex it occupied
C34_InvalidTargetRefused ==
    [][\A h \in InvalidRobberTargets :
          moveRobber(h) =>
              /\ result' # "ok"
              /\ UNCHANGED gameVars
              /\ \A k \in HexIds : hexes'[k].hasRobber = hexes[k].hasRobber]_vars

-----------------------------------------------------------------------------
(* C35: the longest-road bookkeeping *)

\* C35, as stated: in every reachable state at most one player has the
\* hasLongestRoad flag set, and a player's flag is set exactly when
\* longestRoadPlayer names that player
C35_LongestRoadBookkeeping ==
    /\ Cardinality({p \in PlayerIds : players[p].hasLongestRoad}) <= 1
    /\ \A p \in PlayerIds : players[p].hasLongestRoad <=> longestRoadPlayer = p

-----------------------------------------------------------------------------
(* C36: placements are permanent *)

\* none, then settlement, then city
buildingRank(b) == IF b = null THEN 0 ELSE IF b = "settlement" THEN 1 ELSE 2

\* C36, as stated: a road once laid stays and keeps its owner; a vertex once
\* owned keeps its owner, and its building only goes from none to settlement
\* and from settlement to city, never back
C36_PlacementsPermanent ==
    [][/\ \A e \in EdgeIds :
            edges[e].road # null => edges'[e].road = edges[e].road
       /\ \A v \in VertexIds :
            /\ vertices[v].playerColor # null
                  => vertices'[v].playerColor = vertices[v].playerColor
            /\ buildingRank(vertices'[v].building) >= buildingRank(vertices[v].building)
            /\ buildingRank(vertices'[v].building) <= buildingRank(vertices[v].building) + 1]_vars

\* seat 0 has upgraded vertex 44 to a city, seat 1 still owns vertex 17 and
\* edge 26, which seat 0 aims at, and a build command has just been refused
C36_CityStandsAfterRefusal ==
    /\ vertices[44].building = "city"
    /\ vertices[44].playerColor = players[0].color
    /\ vertices[17].playerColor = players[1].color
    /\ edges[26].road = players[1].color
    /\ result = "false"

-----------------------------------------------------------------------------
(* C37: the setup counters *)

\* C37, as stated: while the setup phase lasts, every seat has placed at least
\* as many settlements as roads and at most one more, no more settlements than
\* the number of the current round, and only the current seat has a settlement
\* whose road is still to be placed
C37_SetupCounters ==
    initialPlacementPhase =>
        \A p \in PlayerIds :
            LET placements == placementsPerPlayer[p]
            IN  /\ placements.roads <= placements.settlements
                /\ placements.settlements <= placements.roads + 1
                /\ placements.settlements <= initialPlacementRound
                /\ placements.settlements = placements.roads + 1
                      => currentPlayerIndex = p

-----------------------------------------------------------------------------
(* C38: the setup phase ends *)

-----------------------------------------------------------------------------
(* C39: the placement-option queries *)

\* C39, as stated: a build command of the current player succeeds exactly when
\* the matching query offered the option in the state the command was issued
\* in: 'settlement' and 'city' of getVertexPlacementOptions for buildSettlement
\* and buildCity, 'road' of getEdgePlacementOptions for buildRoad with the same
\* arguments; and a call of either query changes no state
C39_QueriesAgreeWithCommands ==
    [][/\ \A v \in VertexIds :
            /\ buildSettlement(v, currentPlayerIndex) =>
                  (result' = "true" <=> "settlement" \in getVertexPlacementOptions(v))
            /\ buildCity(v, currentPlayerIndex) =>
                  (result' = "true" <=> "city" \in getVertexPlacementOptions(v))
       /\ \A e \in EdgeIds : \A v \in SupportingVertex :
            buildRoad(e, currentPlayerIndex, v) =>
                  (result' = "true" <=> "road" \in getEdgePlacementOptions(e, v))
       /\ \A v \in VertexIds :
            getVertexPlacementOptionsCall(v) => UNCHANGED gameVars
       /\ \A e \in EdgeIds : \A v \in SupportingVertex :
            getEdgePlacementOptionsCall(e, v) => UNCHANGED gameVars]_vars

-----------------------------------------------------------------------------
(* C40: game over *)

\* C40, as stated: once the phase is gameOver, every later rollDice, endTurn,
\* build and moveRobber call leaves the phase gameOver, the current seat and
\* the turn counter as they are
C40_GameOverAbsorbing ==
    [][phase = GameOver =>
          /\ phase' = GameOver
          /\ currentPlayerIndex' = currentPlayerIndex
          /\ turnNumber' = turnNumber]_vars

====
